---- MODULE Spec2Model ----
(***************************************************************************)
(* A model of unplugin-inline-functions: the plugin session (buildStart /  *)
(* transform / buildEnd over the module-level symbol table and the two     *)
(* content-keyed caches), reference discovery, the import rewriter, the    *)
(* control-flow splicer and the pure-expression deduplicator.              *)
(***************************************************************************)
EXTENDS Integers, Sequences, FiniteSets, TLC

VARIABLES
    initialized,        \* index.ts: let initialized (per plugin instance)
    inlinableFunctions, \* collect-metadata: Map name -> record (module global)
    pureFunctions,      \* collect-metadata: Set of names (module global)
    STATS,              \* stats: inlined-call counts and transformed functions
    astCache,           \* index.ts: Map hash -> tree (module global, trees are mutable)
    codeCache,          \* index.ts: Map hash -> transformed code (module global)
    ret,                \* what the last hook call did and returned to the host
    scan,               \* how far the one collection of this instance got
    pristine,           \* the trees as collection left them (reference for order independence)
    options,            \* the instance's followExports / followImports options
    splice,             \* the caller being spliced and what it became
    rewrite,            \* the tree the last inliner run left, inserted imports marked
    dedup,              \* the function being deduplicated and what it became
    discovery,          \* the loop variables of a reference discovery in progress
    other               \* the process's second plugin instance, while the first is called

vars == <<initialized, inlinableFunctions, pureFunctions, STATS, astCache, codeCache,
          ret, scan, pristine, options, splice, rewrite, dedup, discovery, other>>

sessionVars == <<initialized, inlinableFunctions, pureFunctions, STATS, astCache,
                 codeCache, ret, scan, pristine, options, rewrite, other>>

----------------------------------------------------------------------------
(* Generic helpers *)

\* Strict(f, x): f applied to the value of x, which is computed once
Strict(f(_), x) == CHOOSE r \in {f(v) : v \in {x}} : TRUE

FoldLeft(op(_, _), base, s) ==
    LET RECURSIVE helper(_, _)
        helper(q, i) == IF i = 0 THEN base
                        ELSE CHOOSE r \in {op(acc, q[i]) : acc \in {helper(q, i - 1)}} : TRUE
    IN Strict(LAMBDA q : helper(q, Len(q)), s)

Range(s) == {s[i] : i \in DOMAIN s}

SeqContains(s, x) == \E i \in DOMAIN s : s[i] = x

Min(a, b) == IF a < b THEN a ELSE b

EmptyMap == [x \in {} |-> 0]

MapSet(m, k, v) == [x \in (DOMAIN m) \cup {k} |-> IF x = k THEN v ELSE m[x]]

----------------------------------------------------------------------------
(* Paths.  A file path is a directory (segments below the project root), a *)
(* stem and an extension; an import source is a number of "..", further    *)
(* segments, a stem and possibly an extension ('./x' has up = 0).          *)

File(dir, stem, ext) == [dir |-> dir, stem |-> stem, ext |-> ext]

Rel(up, down, stem, ext) ==
    [rel |-> TRUE, up |-> up, down |-> down, stem |-> stem, ext |-> ext]

Pkg(name) == [rel |-> FALSE, up |-> 0, down |-> <<>>, stem |-> name, ext |-> ""]

NoPath == File(<<>>, "", "none")

\* resolveExportPath's extension list, in the order it is tried
Extensions == <<".ts", ".tsx", ".js", ".jsx", "">>

\* the transform's /\.(js|ts|jsx|tsx)$/ test
IsSourceId(id) == id.ext \in {".js", ".ts", ".jsx", ".tsx"}

dirname(p) == p.dir

\* node's path.resolve(fromDir, source) for the sources the plugin meets
pathResolve(fromDir, source) ==
    LET keep == Len(fromDir) - Min(source.up, Len(fromDir))
    IN File(SubSeq(fromDir, 1, keep) \o source.down, source.stem, source.ext)

\* resolved + ext: a name that already carries an extension only matches as it is
withExt(resolved, ext) ==
    IF resolved.ext = "" THEN File(resolved.dir, resolved.stem, ext)
    ELSE IF ext = "" THEN resolved
    ELSE NoPath

\* path.join(resolved, 'index' + ext)
indexPath(resolved, ext) ==
    IF resolved.ext = "" THEN File(resolved.dir \o <<resolved.stem>>, "index", ext)
    ELSE NoPath

resolveExportPath(sourcePath, fromDir, disk) ==
    LET resolved == pathResolve(fromDir, sourcePath)
        cands == [i \in 1..(2 * Len(Extensions)) |->
                    IF i % 2 = 1 THEN withExt(resolved, Extensions[(i + 1) \div 2])
                    ELSE indexPath(resolved, Extensions[i \div 2])]
        hits == {i \in DOMAIN cands : cands[i] \in disk}
    IN IF hits = {} THEN NoPath
       ELSE cands[CHOOSE i \in hits : \A j \in hits : i <= j]

RECURSIVE CommonPrefixLen(_, _)
CommonPrefixLen(a, b) ==
    IF a = <<>> \/ b = <<>> \/ Head(a) # Head(b) THEN 0
    ELSE 1 + CommonPrefixLen(Tail(a), Tail(b))

\* create-relative-path: the source that leads from file `from` to `to`
createRelativePath(from, to) ==
    LET c == CommonPrefixLen(from.dir, to.dir)
    IN Rel(Len(from.dir) - c, SubSeq(to.dir, c + 1, Len(to.dir)), to.stem, to.ext)

----------------------------------------------------------------------------
(* Syntax trees.  A module is its top-level import/export statements, the  *)
(* names it declares at module level and its functions; a function body is *)
(* a sequence of statements that call a function or use a name.            *)

Call(f) == [k |-> "call", n |-> f]

Use(n) == [k |-> "use", n |-> n]

\* origin tells an import the rewriter inserted (for which function's dependency) from
\* one written in the source; it is no part of the program text
Written == [fn |-> "", fullPath |-> NoPath]

Import(locals, source) ==
    [type |-> "import", locals |-> locals, source |-> source, origin |-> Written]

Inserted(depName, source, fn, fullPath) ==
    [type |-> "import", locals |-> {depName}, source |-> source,
     origin |-> [fn |-> fn, fullPath |-> fullPath]]

ExportAll(source) ==
    [type |-> "export *", locals |-> {}, source |-> source, origin |-> Written]

ExportNamed(locals, source) ==
    [type |-> "export {...}", locals |-> locals, source |-> source, origin |-> Written]

Fn(name, inline, pure, body) ==
    [name |-> name, inline |-> inline, pure |-> pure, body |-> body]

Tree(filename, body, decls, fns) ==
    [ok |-> TRUE, filename |-> filename, body |-> body, decls |-> decls, fns |-> fns]

\* what stands for a file that parse() throws on
ParseFail == [ok |-> FALSE]

\* node.type === 'ImportDeclaration' && node.specifiers.some(spec => spec.local.name === depName)
importsName(node, depName) == node.type = "import" /\ depName \in node.locals

\* generate(ast).code: the text shows the statements and the functions, not the file name
generate(tree) ==
    [body |-> [i \in DOMAIN tree.body |->
                 [type |-> tree.body[i].type, locals |-> tree.body[i].locals,
                  source |-> tree.body[i].source]],
     fns |-> tree.fns]

----------------------------------------------------------------------------
(* Reference discovery *)

\* fast-glob's ignore patterns of the default configuration, on the model's paths
IsExcluded(f) == f.dir # <<>> /\ f.dir[1] = "node_modules"

\* findReferencedFiles with isSideEffect left out of shouldFollow
findEveryImport(ast, filePath, followImports, disk) ==
    LET fileDir == dirname(filePath)
        visit(acc, node) ==
            IF node.type \notin {"export *", "export {...}"}
                  /\ followImports \in {"false", "none"}
            THEN acc
            ELSE IF node.source.rel
                 THEN LET resolved == resolveExportPath(node.source, fileDir, disk)
                      IN IF resolved # NoPath THEN Append(acc, resolved) ELSE acc
                 ELSE acc
    IN FoldLeft(visit, <<>>, ast.body)

\* findReferencedFiles: the resolved targets of the followed statements, in source order
findReferencedFiles(ast, filePath, followImports, disk) ==
    LET fileDir == dirname(filePath)
        visit(acc, node) ==
            IF node.type \in {"export *", "export {...}"}
            THEN IF node.source.rel
                 THEN LET resolved == resolveExportPath(node.source, fileDir, disk)
                      IN IF resolved # NoPath THEN Append(acc, resolved) ELSE acc
                 ELSE acc
            ELSE IF followImports \in {"false", "none"} THEN acc
            ELSE IF node.source.rel
                 THEN LET isSideEffect == node.locals = {}
                          shouldFollow == \/ followImports = "all"
                                          \/ followImports = "true"
                                          \/ (followImports = "side-effects" /\ isSideEffect)
                          resolved == resolveExportPath(node.source, fileDir, disk)
                      IN IF shouldFollow /\ resolved # NoPath THEN Append(acc, resolved) ELSE acc
                 ELSE acc
    IN FoldLeft(visit, <<>>, ast.body)

\* the admission without the test against the exclude patterns
admitExcluded(st, referencedFile, filePath, disk) ==
    IF referencedFile \in disk /\ ~SeqContains(st.files, referencedFile)
    THEN [st EXCEPT !.files = Append(@, referencedFile),
                    !.toProcess = Append(@, referencedFile),
                    !.prov = MapSet(@, referencedFile,
                                (IF referencedFile \in DOMAIN st.prov
                                 THEN st.prov[referencedFile] ELSE <<>>) \o <<filePath>>)]
    ELSE st

\* the admission with the discovery chain recorded for every reference, also to a file
\* that `files` already holds
admitRecordingAll(st, referencedFile, filePath, disk) ==
    LET wouldBeIncluded == referencedFile \in disk /\ ~IsExcluded(referencedFile)
        recorded == [st EXCEPT !.prov = MapSet(@, referencedFile,
                                   (IF referencedFile \in DOMAIN st.prov
                                    THEN st.prov[referencedFile] ELSE <<>>) \o <<filePath>>)]
    IN IF ~wouldBeIncluded THEN st
       ELSE IF SeqContains(st.files, referencedFile) THEN recorded
       ELSE [recorded EXCEPT !.files = Append(@, referencedFile),
                             !.toProcess = Append(@, referencedFile)]

\* lines 83-103: a referenced file that exists, is not excluded and is not yet in
\* `files` is added to it, queued and its discovery chain recorded
admit(st, referencedFile, filePath, disk) ==
    LET wouldBeIncluded == referencedFile \in disk /\ ~IsExcluded(referencedFile)
    IN IF wouldBeIncluded /\ ~SeqContains(st.files, referencedFile)
       THEN [st EXCEPT !.files = Append(@, referencedFile),
                       !.toProcess = Append(@, referencedFile),
                       !.prov = MapSet(@, referencedFile,
                                   (IF referencedFile \in DOMAIN st.prov
                                    THEN st.prov[referencedFile] ELSE <<>>) \o <<filePath>>)]
       ELSE st

\* one iteration of the loop with neither the visited test nor the files.has test
discoverStepUnguarded(st, followImports, parsed) ==
    LET filePath == Head(st.toProcess)
        taken == [st EXCEPT !.toProcess = Tail(@), !.visited = @ \cup {filePath},
                            !.reads = Append(@, filePath)]
    IN IF filePath \notin DOMAIN parsed \/ ~parsed[filePath].ok THEN taken
       ELSE LET disk == DOMAIN parsed
                enqueue(a, referencedFile) ==
                    IF referencedFile \in disk /\ ~IsExcluded(referencedFile)
                    THEN [a EXCEPT !.files = IF SeqContains(@, referencedFile) THEN @
                                                ELSE Append(@, referencedFile),
                                   !.toProcess = Append(@, referencedFile)]
                    ELSE a
            IN FoldLeft(enqueue, taken,
                        findReferencedFiles(parsed[filePath], filePath, followImports, disk))

\* lines 52-134: one iteration of the while loop; parsed[f] is the tree of the file f on
\* disk, or ParseFail; reads lists the files read and parsed so far
discoverStep(st, followImports, parsed) ==
    LET filePath == Head(st.toProcess)
        taken == [st EXCEPT !.toProcess = Tail(@), !.visited = @ \cup {filePath},
                            !.reads = Append(@, filePath)]
    IN IF filePath \in st.visited THEN [st EXCEPT !.toProcess = Tail(@)]
       ELSE IF filePath \notin DOMAIN parsed \/ ~parsed[filePath].ok THEN taken
       ELSE LET disk == DOMAIN parsed
                one(a, referencedFile) == admit(a, referencedFile, filePath, disk)
            IN FoldLeft(one, taken,
                        findReferencedFiles(parsed[filePath], filePath, followImports, disk))

\* lines 45-50: the loop's variables before its first iteration
discoverStart(initialFiles) ==
    [files |-> initialFiles, visited |-> {}, toProcess |-> initialFiles, prov |-> EmptyMap,
     reads |-> <<>>]

\* line 144: return { files, discoveredViaExports }
discoverResult(st) ==
    [files |-> st.files, discoveredViaExports |-> st.prov, visited |-> st.visited]

\* the while loop of discoverFilesViaReferences
discoverLoop(files, visited, toProcess, prov, followImports, parsed) ==
    LET RECURSIVE run(_)
        run(st) ==
            LET again(nxt) == run(nxt)
            IN IF st.toProcess = <<>> THEN discoverResult(st)
               ELSE Strict(again, discoverStep(st, followImports, parsed))
    IN run([files |-> files, visited |-> visited, toProcess |-> toProcess, prov |-> prov,
            reads |-> <<>>])

discoverFilesViaReferences(initialFiles, followExports, followImports, parsed) ==
    IF ~followExports /\ followImports = "false"
    THEN [files |-> initialFiles, discoveredViaExports |-> EmptyMap, visited |-> {}]
    ELSE discoverLoop(initialFiles, {}, initialFiles, EmptyMap, followImports, parsed)

----------------------------------------------------------------------------
(* Metadata collection.  A record of the symbol table points into the tree *)
(* it was collected from (`home` is that tree's key); the local            *)
(* dependencies and the called names are stored when it is recorded.       *)

SetToSeq(S) ==
    LET RECURSIVE build(_)
        build(T) == IF T = {} THEN <<>>
                    ELSE LET x == CHOOSE y \in T : TRUE IN <<x>> \o build(T \ {x})
    IN build(S)

fnNamed(tree, name) ==
    tree.fns[CHOOSE i \in DOMAIN tree.fns : tree.fns[i].name = name]

hasFn(tree, name) == \E i \in DOMAIN tree.fns : tree.fns[i].name = name

\* collectLocalDependencies: the names a body references that its own file declares
\* (an import, a module-level declaration), each with the path recorded for it
collectLocalDependencies(tree, body) ==
    LET dep(acc, stmt) ==
            LET n == stmt.n
                imps == {i \in DOMAIN tree.body : importsName(tree.body[i], n)}
            IN IF \E j \in DOMAIN acc : acc[j].name = n THEN acc
               ELSE IF imps # {}
               THEN LET imp == tree.body[CHOOSE i \in imps : \A j \in imps : i <= j]
                    IN Append(acc, [name |-> n,
                           fullPath |-> pathResolve(dirname(tree.filename), imp.source)])
               ELSE IF n \in tree.decls
               THEN Append(acc, [name |-> n, fullPath |-> tree.filename])
               ELSE acc
    IN FoldLeft(dep, <<>>, body)

calledNames(body) ==
    LET add(acc, stmt) == IF stmt.k = "call" /\ ~SeqContains(acc, stmt.n)
                          THEN Append(acc, stmt.n) ELSE acc
    IN FoldLeft(add, <<>>, body)

\* collectMetadata(ast): later declarations of a name overwrite earlier ones
collectMetadata(key, tree, meta) ==
    LET visit(m, fn) ==
            [table |-> IF fn.inline
                       THEN MapSet(m.table, fn.name,
                              [home |-> key, pure |-> fn.pure,
                               deps |-> collectLocalDependencies(tree, fn.body),
                               calls |-> calledNames(fn.body)])
                       ELSE m.table,
             pure |-> IF fn.pure THEN m.pure \cup {fn.name} ELSE m.pure]
    IN FoldLeft(visit, meta, tree.fns)

getFunctionLocalDeps(table, name) ==
    IF name \in DOMAIN table THEN table[name].deps ELSE <<>>

\* getFunctionDependencyChain: the other inlinable functions reached from name's body
getFunctionDependencyChain(table, name) ==
    LET RECURSIVE close(_)
        close(acc) ==
            LET again(nxt) == IF nxt = acc THEN acc ELSE close(nxt)
            IN Strict(again, acc \cup {g \in DOMAIN table :
                          \E f \in acc \cup {name} :
                              f \in DOMAIN table /\ SeqContains(table[f].calls, g)})
    IN SetToSeq(close({}) \ {name})

----------------------------------------------------------------------------
(* Import rewriter.  `body` is the destination program's statement list as *)
(* it stands (imports added so far included), W.heap the trees by key,     *)
(* W.table the symbol table, W.disk the files on disk.                     *)

homeBody(body, destKey, inlineKey, W) ==
    IF inlineKey = destKey THEN body ELSE W.heap[inlineKey].body

\* lines 49-78: the source the new import is given
importSourceFor(body, destKey, currentPath, inlineKey, dep, W) ==
    LET home == homeBody(body, destKey, inlineKey, W)
        found == {i \in DOMAIN home : importsName(home[i], dep.name)}
        sourceFilePath == W.heap[inlineKey].filename
    IN IF found # {}
       THEN LET inlinedImport == home[CHOOSE i \in found : \A j \in found : i <= j]
                resolvedDepPath ==
                    resolveExportPath(inlinedImport.source, dirname(sourceFilePath), W.disk)
            IN IF resolvedDepPath # NoPath
               THEN createRelativePath(currentPath, resolvedDepPath)
               ELSE createRelativePath(currentPath, dep.fullPath)
       ELSE createRelativePath(currentPath, dep.fullPath)

\* the loop of lines 26-89 without the importExists test of lines 33-39
addEveryDepImport(body, destKey, currentPath, inlineKey, name, W) ==
    LET one(b, dep) ==
            IF dep.fullPath = NoPath THEN b
            ELSE <<Inserted(dep.name,
                     importSourceFor(b, destKey, currentPath, inlineKey, dep, W),
                     name, dep.fullPath)>> \o b
    IN FoldLeft(one, body, getFunctionLocalDeps(W.table, name))

\* lines 26-89: one import per local dependency the destination does not import yet
addLocalDepImports(body, destKey, currentPath, inlineKey, name, W) ==
    LET one(b, dep) ==
            IF dep.fullPath = NoPath THEN b
            ELSE IF \E i \in DOMAIN b : importsName(b[i], dep.name) THEN b
            ELSE <<Inserted(dep.name,
                     importSourceFor(b, destKey, currentPath, inlineKey, dep, W),
                     name, dep.fullPath)>> \o b
    IN FoldLeft(one, body, getFunctionLocalDeps(W.table, name))

\* lines 91-98: the nested inlined function's own tree, not the parent's
nestedInlineKey(W, funcName, inlineKey) ==
    IF funcName \in DOMAIN W.table THEN W.table[funcName].home ELSE inlineKey

RECURSIVE addImportsForDependencies(_, _, _, _, _, _)
addImportsForDependencies(body, destKey, currentPath, inlineKey, name, W) ==
    LET nested(b, funcName) ==
            addImportsForDependencies(b, destKey, currentPath,
                nestedInlineKey(W, funcName, inlineKey), funcName, W)
    IN FoldLeft(nested, addLocalDepImports(body, destKey, currentPath, inlineKey, name, W),
                getFunctionDependencyChain(W.table, name))

----------------------------------------------------------------------------
(* Call-site transformer, as far as the session needs it: every call of a  *)
(* recorded function is replaced by that function's body as it stands in   *)
(* the tree the record points into, and the imports its body needs are     *)
(* added to the destination program.                                       *)

EmptyStats == [counts |-> EmptyMap, transformed |-> {}]

isInlinableCall(stmt, table) == stmt.k = "call" /\ stmt.n \in DOMAIN table

\* grafting the callee's body as it stands, calls of inlinable functions included
expandOnce(body, heap, table) ==
    LET one(acc, stmt) ==
            IF isInlinableCall(stmt, table) /\ hasFn(heap[table[stmt.n].home], stmt.n)
            THEN acc \o fnNamed(heap[table[stmt.n].home], stmt.n).body
            ELSE Append(acc, stmt)
    IN FoldLeft(one, <<>>, body)

RECURSIVE expandBody(_, _, _)
expandBody(body, heap, table) ==
    LET one(acc, stmt) ==
            IF isInlinableCall(stmt, table) /\ hasFn(heap[table[stmt.n].home], stmt.n)
            THEN acc \o expandBody(fnNamed(heap[table[stmt.n].home], stmt.n).body, heap, table)
            ELSE Append(acc, stmt)
    IN FoldLeft(one, <<>>, body)

inlinedCalls(tree, table) ==
    LET perFn(acc, fn) ==
            LET perStmt(a, stmt) == IF isInlinableCall(stmt, table) THEN Append(a, stmt.n) ELSE a
            IN FoldLeft(perStmt, acc, fn.body)
    IN FoldLeft(perFn, <<>>, tree.fns)

statsAfter(stats, tree, table) ==
    LET bump(c, g) == MapSet(c, g, IF g \in DOMAIN c THEN c[g] + 1 ELSE 1)
    IN [counts |-> FoldLeft(bump, stats.counts, inlinedCalls(tree, table)),
        transformed |-> stats.transformed \cup
            {tree.fns[i].name : i \in {j \in DOMAIN tree.fns :
                \E k \in DOMAIN tree.fns[j].body : isInlinableCall(tree.fns[j].body[k], table)}}]

\* inlineFunctions(ast): rewrites the tree in place and returns its text
inlineFunctions(destKey, W) ==
    LET tree == W.heap[destKey]
        imp(b, g) == addImportsForDependencies(b, destKey, tree.filename, W.table[g].home, g, W)
        result(out) == [tree |-> out, code |-> generate(out)]
    IN Strict(result,
              [tree EXCEPT
                  !.fns = [i \in DOMAIN tree.fns |->
                             [tree.fns[i] EXCEPT !.body = expandBody(@, W.heap, W.table)]],
                  !.body = FoldLeft(imp, tree.body, inlinedCalls(tree, W.table))])

----------------------------------------------------------------------------
(* The project of the session: the files on disk and their text.           *)

fMain == File(<<"src">>, "main", ".ts")
fUtil == File(<<"src">>, "util", ".ts")
fBad  == File(<<"src">>, "bad", ".ts")
fG    == File(<<"lib">>, "g", ".ts")
fZc   == File(<<"lib">>, "zc", ".ts")
fCss  == File(<<"src">>, "style", ".css")
fNew  == File(<<"src", "app">>, "extra", ".tsx")

Disk == (fMain :> "main") @@ (fUtil :> "util") @@ (fBad :> "bad")
        @@ (fG :> "g") @@ (fZc :> "zc") @@ (fCss :> "css")

\* what the glob of the include patterns returns, in its order
GlobFiles == <<fBad, fMain, fUtil, fCss>>

Contents == {"main", "util", "bad", "extra"}
Ids == {fMain, fUtil, fCss, fNew}

\* parse(code, {sourceFilename}): the tree of a text, or a syntax error
parse(code, filename) ==
    CASE code = "main" ->
           Tree(filename, <<Import({"F", "K"}, Rel(0, <<>>, "util", ""))>>, {},
                <<Fn("run", FALSE, FALSE, <<Call("F"), Call("K")>>)>>)
      [] code = "util" ->
           Tree(filename, <<Import({"G"}, Rel(1, <<"lib">>, "g", ""))>>, {"cache"},
                <<Fn("F", TRUE, FALSE, <<Use("cache")>>),
                  Fn("K", TRUE, FALSE, <<Call("G")>>),
                  Fn("caller", FALSE, FALSE, <<Call("G")>>)>>)
      [] code = "g" ->
           Tree(filename, <<Import({"cache"}, Rel(0, <<>>, "zc", ""))>>, {},
                <<Fn("G", TRUE, TRUE, <<Use("cache")>>)>>)
      [] code = "zc" -> Tree(filename, <<>>, {"cache"}, <<>>)
      [] code = "extra" ->
           Tree(filename, <<Import({"F", "cache"}, Rel(1, <<>>, "util", ""))>>, {},
                <<Fn("extra", FALSE, FALSE, <<Call("F"), Use("cache")>>)>>)
      [] OTHER -> ParseFail

hashContent(content) == <<"md5", content>>
PrivateKey == <<"parsed", "">>

----------------------------------------------------------------------------
(* The plugin instance: buildStart, transform, buildEnd.                   *)

NoCode == [body |-> <<>>, fns |-> <<>>]
Null == [kind |-> "null", code |-> NoCode]
Thrown == [kind |-> "throw", code |-> NoCode]
Code(text) == [kind |-> "code", code |-> text]

NoScan == [status |-> "none", files |-> {}, over |-> {}]

Idle == "idle"

FollowImportsValues == {"true", "false"}

OnDisk == [f \in DOMAIN Disk |-> parse(Disk[f], f)]

\* the collection loop with its try around the whole loop: the first file that fails
\* to parse ends the collection
collectUntilFailure(filesArray) ==
    LET step(st, filePath) ==
            IF ~IsSourceId(filePath) \/ st.failed THEN st
            ELSE LET contents == Disk[filePath]
                     hash == hashContent(contents)
                     ast == parse(contents, filePath)
                     seen == [st EXCEPT !.over = @ \cup {filePath}]
                 IN IF ~ast.ok THEN [seen EXCEPT !.failed = TRUE]
                    ELSE LET meta == collectMetadata(hash, ast,
                                        [table |-> st.table, pure |-> st.pure])
                         IN [seen EXCEPT !.astCache = MapSet(@, hash, ast),
                                         !.table = meta.table,
                                         !.pure = meta.pure]
    IN FoldLeft(step, [astCache |-> EmptyMap, table |-> EmptyMap, pure |-> {}, over |-> {},
                       failed |-> FALSE],
                filesArray)

\* lines 181-213: the collection loop over the candidate files
collectFiles(filesArray) ==
    LET step(st, filePath) ==
            IF ~IsSourceId(filePath) THEN st
            ELSE LET contents == Disk[filePath]
                     hash == hashContent(contents)
                     ast == parse(contents, filePath)
                     seen == [st EXCEPT !.over = @ \cup {filePath}]
                 IN IF ~ast.ok THEN seen
                    ELSE LET meta == collectMetadata(hash, ast,
                                        [table |-> st.table, pure |-> st.pure])
                         IN [seen EXCEPT !.astCache = MapSet(@, hash, ast),
                                         !.table = meta.table,
                                         !.pure = meta.pure]
    IN FoldLeft(step, [astCache |-> EmptyMap, table |-> EmptyMap, pure |-> {}, over |-> {}],
                filesArray)

Current ==
    [initialized |-> initialized, table |-> inlinableFunctions, pure |-> pureFunctions,
     stats |-> STATS, astCache |-> astCache, codeCache |-> codeCache,
     scan |-> scan, pristine |-> pristine, threw |-> FALSE, didScan |-> FALSE,
     failure |-> "none", console |-> {}, globThrew |-> FALSE]

\* the debug option: false, true or 'verbose'
DebugValues == {"false", "true", "verbose"}

isDebugEnabled(debug) == debug \in {"true", "verbose"}

isVerboseDebug(debug) == debug = "verbose"

\* logFileDiscovery under debug, with its glob throwing: the exception leaves
\* scanAndCollectMetadata
logFileDiscoveryThrows(debug, filesArray, initialFiles, globAgainThrows) ==
    [threw |-> isDebugEnabled(debug), lines |-> {}]

\* logFileDiscovery: under debug it globs the include patterns once more, to count the
\* files that discovery added, and logs the counts
logFileDiscovery(debug, filesArray, initialFiles, globAgainThrows) ==
    IF ~isDebugEnabled(debug) THEN [threw |-> FALSE, lines |-> {}]
    ELSE IF globAgainThrows THEN [threw |-> TRUE, lines |-> {}]
    ELSE [threw |-> FALSE,
          lines |-> {[msg |-> "Found files", count |-> Len(filesArray),
                      discovered |-> Len(filesArray) - Len(initialFiles)]}]

\* logMetadataCollectionForFile: verbose only; it reads the tree and the discovery
\* chains and logs a file that has inline functions or was discovered
logMetadataCollectionForFile(filePath, ast, discoveredViaExports, debug) ==
    IF ~isVerboseDebug(debug) THEN {}
    ELSE LET inlineNames == {ast.fns[i].name : i \in {j \in DOMAIN ast.fns : ast.fns[j].inline}}
             wasDiscovered == filePath \in DOMAIN discoveredViaExports
         IN IF inlineNames # {} \/ wasDiscovered
            THEN {[msg |-> "collected", file |-> filePath, functions |-> inlineNames,
                   via |-> IF wasDiscovered THEN discoveredViaExports[filePath] ELSE <<>>]}
            ELSE {}

\* logMetadataCollectionSummary: the names the symbol table and the pure set hold
logMetadataCollectionSummary(table, pure, filesArray, debug) ==
    IF ~isDebugEnabled(debug) THEN {}
    ELSE {[msg |-> "Metadata collection complete", inline |-> DOMAIN table, pure |-> pure,
           files |-> Len(filesArray)]}

\* lines 134-217: reset, glob, discovery, collection; globThrows is the outcome of the
\* file-system glob, which is outside every try block
collectSessionWith(opts, globThrows) ==
    LET cleared == [Current EXCEPT !.initialized = TRUE, !.stats = EmptyStats,
                       !.table = EmptyMap, !.pure = {}, !.astCache = EmptyMap,
                       !.codeCache = EmptyMap, !.pristine = EmptyMap, !.didScan = TRUE,
                       !.globThrew = globThrows]
        aborted == [cleared EXCEPT !.threw = TRUE,
                        !.scan = [status |-> "aborted", files |-> {}, over |-> {}]]
    IN IF globThrows THEN aborted
       ELSE LET collected(found) ==
                    LET filesArray == found.files
                        logged == logFileDiscovery(opts.debug, filesArray, GlobFiles, globThrows)
                        perFile(done) ==
                            UNION {logMetadataCollectionForFile(f, parse(Disk[f], f),
                                       found.discoveredViaExports, opts.debug)
                                   : f \in {g \in done.over : parse(Disk[g], g).ok}}
                        stored(done) ==
                            [cleared EXCEPT
                               !.table = done.table, !.pure = done.pure,
                               !.astCache = done.astCache, !.pristine = done.astCache,
                               !.scan = [status |-> "complete",
                                         files |-> {f \in Range(filesArray) : IsSourceId(f)},
                                         over |-> done.over],
                               !.console = logged.lines \cup perFile(done) \cup
                                   logMetadataCollectionSummary(done.table, done.pure,
                                       filesArray, opts.debug)]
                    IN IF logged.threw THEN aborted
                       ELSE Strict(stored, collectFiles(filesArray))
            IN Strict(collected,
                      discoverFilesViaReferences(GlobFiles, opts.followExports,
                          opts.followImports, OnDisk))

collectSession(globThrows) == collectSessionWith(options, globThrows)

\* scanAndCollectMetadata without its `if (initialized) return` guard
scanAlways(globThrows) == collectSession(globThrows)

\* scanAndCollectMetadata(): the state it leaves
scanAndCollectMetadata(globThrows) ==
    IF initialized THEN Current ELSE collectSession(globThrows)

Install(S) ==
    /\ initialized' = S.initialized
    /\ inlinableFunctions' = S.table
    /\ pureFunctions' = S.pure
    /\ STATS' = S.stats
    /\ astCache' = S.astCache
    /\ codeCache' = S.codeCache
    /\ scan' = S.scan
    /\ pristine' = S.pristine

Report(op, code, id, result, ranInliner, S) ==
    ret' = [op |-> op, code |-> code, id |-> id, result |-> result,
            ranInliner |-> ranInliner, didScan |-> S.didScan, failure |-> S.failure,
            console |-> S.console, globThrew |-> S.globThrew]

buildStart(globThrows) ==
    \E S \in {scanAndCollectMetadata(globThrows)} :
       /\ Install(S)
       /\ Report("buildStart", "", NoPath, IF S.threw THEN Thrown ELSE Null, FALSE, S)

\* the try block of transform: parse or reuse the tree, inline, store the text
transformed(S, code, id) ==
    LET hash == hashContent(code)
        cached == hash \in DOMAIN S.astCache
        ast == IF cached THEN S.astCache[hash] ELSE parse(code, id)
        key == IF cached THEN hash ELSE PrivateKey
    IN IF ~ast.ok THEN [ok |-> FALSE, S |-> S, code |-> NoCode, tree |-> ParseFail]
       ELSE LET W == [heap |-> MapSet(S.astCache, key, ast), table |-> S.table,
                      disk |-> DOMAIN Disk]
                stored(r) ==
                    [ok |-> TRUE, code |-> r.code, tree |-> r.tree,
                     S |-> [S EXCEPT !.astCache = IF cached THEN MapSet(@, hash, r.tree) ELSE @,
                                     !.codeCache = MapSet(@, hash, r.code),
                                     !.stats = statsAfter(@, ast, S.table)]]
            IN Strict(stored, inlineFunctions(key, W))

\* transform without the codeCache lookup: every call parses or reuses and inlines
transformUncached(code, id, globThrows) ==
    IF ~IsSourceId(id)
    THEN Install(Current) /\ Report("transform", code, id, Null, FALSE, Current)
         /\ UNCHANGED rewrite
    ELSE \E S \in {scanAndCollectMetadata(globThrows)} :
         IF S.threw
         THEN Install(S) /\ Report("transform", code, id, Thrown, FALSE, S)
              /\ UNCHANGED rewrite
         ELSE \E t \in {transformed(S, code, id)} :
                 IF t.ok
                 THEN Install(t.S) /\ Report("transform", code, id, Code(t.code), TRUE, S)
                      /\ rewrite' = t.tree
                 ELSE Install(S) /\ Report("transform", code, id, Null, FALSE, S)
                      /\ UNCHANGED rewrite

\* lines 305-325: inlineFunctions returns, or throws inside the try block before it has
\* changed the tree or after it has rewritten it in place; codeCache.set comes after it
\* the largest number of inlined calls of one function the statistics count
MaxInlined == 2

WithinCount(stats) == \A g \in DOMAIN stats.counts : stats.counts[g] <= MaxInlined

InlinerOutcomes == {"returns", "throws at once", "throws at the end"}

transform(code, id, globThrows) ==
    IF ~IsSourceId(id)
    THEN Install(Current) /\ Report("transform", code, id, Null, FALSE, Current)
         /\ UNCHANGED rewrite
    ELSE \E S \in {scanAndCollectMetadata(globThrows)} :
         LET hash == hashContent(code)
         IN IF S.threw
            THEN Install(S) /\ Report("transform", code, id, Thrown, FALSE, S)
                 /\ UNCHANGED rewrite
            ELSE IF hash \in DOMAIN S.codeCache
            THEN Install(S) /\ Report("transform", code, id, Code(S.codeCache[hash]), FALSE, S)
                 /\ UNCHANGED rewrite
            ELSE \E t \in {transformed(S, code, id)} :
                    IF ~t.ok
                    THEN Install(S) /\ UNCHANGED rewrite
                         /\ Report("transform", code, id, Null, FALSE,
                                   [S EXCEPT !.failure = "parse"])
                    ELSE \E thrown \in InlinerOutcomes :
                         /\ thrown = "throws at the end" => WithinCount(t.S.stats)
                         /\ CASE thrown = "returns" ->
                                   Install(t.S) /\ rewrite' = t.tree
                                   /\ Report("transform", code, id, Code(t.code), TRUE, S)
                              [] thrown = "throws at once" ->
                                   Install(S) /\ UNCHANGED rewrite
                                   /\ Report("transform", code, id, Null, TRUE,
                                             [S EXCEPT !.failure = "inline"])
                              [] thrown = "throws at the end" ->
                                   Install([t.S EXCEPT !.codeCache = S.codeCache])
                                   /\ UNCHANGED rewrite
                                   /\ Report("transform", code, id, Null, TRUE,
                                             [S EXCEPT !.failure = "inline"])

buildEnd ==
    Install(Current) /\ Report("buildEnd", "", NoPath, Null, FALSE, Current)

\* createUnplugin's factory called a second time: the instance's own `initialized`, its
\* options and how far its collection got; the tables and caches are the module's
Instance(name, opts) ==
    [name |-> name, initialized |-> FALSE, options |-> opts, scan |-> NoScan]

\* a process with one plugin instance
NoInstance ==
    Instance("", [followExports |-> TRUE, followImports |-> "true", debug |-> "false"])

InitSession ==
    /\ other = NoInstance
    /\ initialized = FALSE
    /\ inlinableFunctions = EmptyMap
    /\ pureFunctions = {}
    /\ STATS = EmptyStats
    /\ astCache = EmptyMap
    /\ codeCache = EmptyMap
    /\ ret = [op |-> "none", code |-> "", id |-> NoPath, result |-> Null,
              ranInliner |-> FALSE, didScan |-> FALSE, failure |-> "none",
              console |-> {}, globThrew |-> FALSE]
    /\ scan = NoScan
    /\ pristine = EmptyMap
    /\ rewrite = ParseFail

Init ==
    /\ InitSession
    /\ options \in [followExports : BOOLEAN, followImports : FollowImportsValues,
                     debug : {"false"}]
    /\ splice = Idle
    /\ dedup = Idle
    /\ discovery = Idle

BuildStart ==
    /\ \E globThrows \in (IF initialized THEN {FALSE} ELSE BOOLEAN) : buildStart(globThrows)
    /\ UNCHANGED <<options, rewrite, splice, dedup, discovery, other>>

Transform ==
    /\ \E code \in Contents, id \in Ids :
          \E globThrows \in (IF initialized THEN {FALSE} ELSE BOOLEAN) :
              transform(code, id, globThrows)
    /\ UNCHANGED <<options, splice, dedup, discovery, other>>

BuildEnd ==
    /\ buildEnd
    /\ UNCHANGED <<options, rewrite, splice, dedup, discovery, other>>

Next == BuildStart \/ Transform \/ BuildEnd

Spec == Init /\ [][Next]_vars

\* instances that differ in the debug option only
InitDebug ==
    /\ InitSession
    /\ options \in [followExports : {TRUE}, followImports : {"true"}, debug : DebugValues]
    /\ splice = Idle
    /\ dedup = Idle
    /\ discovery = Idle

SpecDebug == InitDebug /\ [][Next]_vars

----------------------------------------------------------------------------
(* Properties of the session.                                              *)

\* C1: whenever transform has invoked the inliner, metadata collection has run to
\* completion over every file of the candidate set, also after a collection attempt
\* that ended abnormally.
C1_TwoPhase ==
    ret.ranInliner => scan.status = "complete" /\ scan.over = scan.files

C1_InlinerAfterAbort ==
    ret.ranInliner /\ scan.status = "aborted" /\ ret.code = "main"

\* the text transform gives for (code, id) when nothing was transformed since collection
freshOutput(code, id) ==
    transformed([Current EXCEPT !.astCache = pristine, !.codeCache = EmptyMap], code, id).code

\* C2: the text transform returns for a file is the text it returns when that file is
\* the first one transformed after collection, whatever was transformed before it.
C2_OrderIndependent ==
    ret.op = "transform" /\ ret.ranInliner /\ ret.result.kind = "code"
        => ret.result.code = freshOutput(ret.code, ret.id)

C2_MainAfterUtil ==
    /\ ret.op = "transform" /\ ret.ranInliner /\ ret.code = "main"
    /\ ret.result.kind = "code"
    /\ hashContent("util") \in DOMAIN codeCache
    /\ ret.result.code # freshOutput(ret.code, ret.id)

SessionState == <<inlinableFunctions, pureFunctions, STATS, astCache, codeCache>>

\* a transform call whose text was transformed successfully earlier in the session
CacheHit == ret'.op = "transform" /\ hashContent(ret'.code) \in DOMAIN codeCache

\* C9 as stated: once transform(c, id1) has succeeded, a later transform(c, id2) with any
\* file identifier id2 returns the cached text, does not run the inliner and changes
\* neither the symbol table, the pure set, the statistics nor a cache.
C9_AnyIdentifier ==
    [][CacheHit =>
          /\ ret'.result = Code(codeCache[hashContent(ret'.code)])
          /\ ~ret'.ranInliner
          /\ UNCHANGED SessionState]_vars

\* C9 amended: the same for every identifier id2 that has a source extension
\* (.js, .ts, .jsx, .tsx); for any other identifier transform returns null.
C9_SourceIdentifier ==
    [][CacheHit /\ IsSourceId(ret'.id) =>
          /\ ret'.result = Code(codeCache[hashContent(ret'.code)])
          /\ ~ret'.ranInliner
          /\ UNCHANGED SessionState]_vars

C9_HitUnderOtherId ==
    /\ ret.op = "transform" /\ ret.code = "main" /\ ret.id = fNew
    /\ ~ret.ranInliner /\ ret.result.kind = "code"
    /\ ret.result.code = codeCache[hashContent("main")]

\* C10: on an initialized instance buildStart changes nothing, and no call performs
\* discovery or collection again or resets the symbol table, the pure set, the
\* statistics or a cache: entries are kept, counts never drop.
C10_BeginSessionIdempotent ==
    [][initialized =>
          /\ ~ret'.didScan
          /\ inlinableFunctions' = inlinableFunctions
          /\ pureFunctions' = pureFunctions
          /\ scan' = scan
          /\ DOMAIN astCache' = DOMAIN astCache
          /\ \A h \in DOMAIN codeCache :
                h \in DOMAIN codeCache' /\ codeCache'[h] = codeCache[h]
          /\ \A g \in DOMAIN STATS.counts :
                g \in DOMAIN STATS'.counts /\ STATS'.counts[g] >= STATS.counts[g]
          /\ STATS.transformed \subseteq STATS'.transformed
          /\ (ret'.op = "buildStart" => UNCHANGED SessionState)]_vars

C10_BuildStartAgain ==
    /\ ret.op = "buildStart" /\ ~ret.didScan /\ initialized
    /\ DOMAIN codeCache # {} /\ DOMAIN inlinableFunctions # {}

\* C11: a buildStart that follows a buildEnd on the same instance starts a new
\* collection session: it clears the statistics and the transformed-text cache and
\* collects the symbol table, the pure set and the tree cache again from the files,
\* so nothing cached or counted in the earlier build is left.
C11_ResetEverySession ==
    [][ret.op = "buildEnd" /\ ret'.op = "buildStart" =>
          /\ ret'.didScan
          /\ codeCache' = EmptyMap
          /\ STATS' = EmptyStats
          /\ astCache' = pristine']_vars

C11_SecondBuildKeepsFirst ==
    /\ ret.op = "buildStart" /\ ~ret.didScan
    /\ hashContent("util") \in DOMAIN codeCache
    /\ astCache # pristine
    /\ STATS # EmptyStats

\* C19: the text transform returns holds no call of a function that the symbol table
\* records as inlinable, in any function of the file; this includes the calls that
\* came with the body of an inlined function of another file.
C19_NoInlinableCallLeft ==
    ret.op = "transform" /\ ret.result.kind = "code" =>
        \A i \in DOMAIN ret.result.code.fns :
            \A j \in DOMAIN ret.result.code.fns[i].body :
                ~isInlinableCall(ret.result.code.fns[i].body[j], inlinableFunctions)

C19_NestedAcrossFiles ==
    /\ ret.op = "transform" /\ ret.result.kind = "code" /\ ret.code = "main"
    /\ {"F", "K", "G"} \subseteq DOMAIN inlinableFunctions
    /\ inlinableFunctions["K"].calls = <<"G">>
    /\ inlinableFunctions["G"].home = hashContent("g")
    /\ ret.result.code.fns[1].body = <<Use("cache"), Use("cache")>>

\* a completed collection has gone over every candidate file: a file that parses has its
\* tree cached and its inline functions recorded, a file that does not has neither
Collected ==
    scan.status = "complete" =>
        \A f \in scan.files :
            /\ f \in scan.over
            /\ LET ast == parse(Disk[f], f)
               IN IF ast.ok
                  THEN /\ hashContent(Disk[f]) \in DOMAIN pristine
                       /\ \A i \in DOMAIN ast.fns :
                             ast.fns[i].inline => ast.fns[i].name \in DOMAIN inlinableFunctions
                  ELSE hashContent(Disk[f]) \notin DOMAIN pristine

\* what scanAndCollectMetadata leaves when the instance runs with debug off
quietScan(globThrows) ==
    IF initialized THEN Current
    ELSE collectSessionWith([options EXCEPT !.debug = "false"], globThrows)

\* C17: an instance with debug true or 'verbose' behaves on every buildStart and
\* transform call as the instance with debug off does from the same state and with the
\* same outcome of the glob: the same candidate file set, the same symbol table, pure
\* set and collected trees, an exception exactly when that one throws, and the same
\* transform result (the cached text, the inliner's text, or null).
C17_DebugObservational ==
    [][\E Q \in {quietScan(ret'.globThrew)} :
          ret'.op \in {"buildStart", "transform"}
             /\ (ret'.op = "transform" => IsSourceId(ret'.id)) =>
                /\ Q.threw <=> ret'.result.kind = "throw"
                /\ scan' = Q.scan
                /\ inlinableFunctions' = Q.table
                /\ pureFunctions' = Q.pure
                /\ pristine' = Q.pristine
                /\ ret'.op = "transform" /\ ~Q.threw =>
                      IF hashContent(ret'.code) \in DOMAIN Q.codeCache
                      THEN ret'.result = Code(Q.codeCache[hashContent(ret'.code)])
                      ELSE \E t \in {transformed(Q, ret'.code, ret'.id)} :
                              ret'.result \in (IF t.ok THEN {Code(t.code), Null}
                                                      ELSE {Null})]_vars

C17_VerboseCollection ==
    /\ options.debug = "verbose"
    /\ ret.op = "transform" /\ ret.didScan /\ ret.result.kind = "code"
    /\ \E line \in ret.console : line.msg = "collected" /\ line.file = fUtil
    /\ \E line \in ret.console : line.msg = "Found files"

\* C12: a file that fails to parse is skipped by collection and every other candidate
\* file is collected; a transform whose parse or inlining throws returns null, throws
\* nothing to the host, leaves the transformed-text cache as it was (no entry for the
\* text) and leaves the symbol table and the pure set to the transforms that follow.
C12_FailureIsolated ==
    [][/\ Collected'
       /\ ret'.op = "transform" /\ ret'.failure # "none" =>
             /\ ret'.result = Null
             /\ codeCache' = codeCache
             /\ hashContent(ret'.code) \notin DOMAIN codeCache'
             /\ initialized =>
                   inlinableFunctions' = inlinableFunctions /\ pureFunctions' = pureFunctions]_vars

C12_FailedThenTransformed ==
    /\ ret.op = "transform" /\ ret.failure = "none" /\ ret.result.kind = "code"
    /\ ret.code = "main" /\ ret.ranInliner
    /\ scan.status = "complete" /\ fBad \in scan.over
    /\ hashContent("util") \in DOMAIN astCache
    /\ hashContent("util") \notin DOMAIN codeCache
    /\ astCache[hashContent("util")] # pristine[hashContent("util")]

----------------------------------------------------------------------------
(* Properties of the import rewriter.                                      *)

isAdded(node) == node.origin # Written

\* the trees the inliner has rewritten: the cached ones and the last one
Rewritten == {astCache[h] : h \in DOMAIN astCache} \cup (IF rewrite.ok THEN {rewrite} ELSE {})

\* the file the dependency depName of the recorded function fn is declared in: what the
\* import of depName in fn's home file resolves to, else the path recorded for it
declaringFile(fn, depName, fullPath) ==
    LET home == pristine[inlinableFunctions[fn].home]
        found == {i \in DOMAIN home.body : importsName(home.body[i], depName)}
        resolved == IF found = {} THEN NoPath
                    ELSE resolveExportPath(
                            home.body[CHOOSE i \in found : \A j \in found : i <= j].source,
                            dirname(home.filename), DOMAIN Disk)
    IN IF resolved # NoPath THEN resolved ELSE fullPath

\* C5: every import the rewriter inserted into a destination file for a dependency of an
\* inlined function carries a path that, resolved from the destination's directory, is
\* the file the import of that dependency in the function's home file resolves to, or
\* the dependency's recorded path when the home file has no resolvable import for it.
C5_TrueDeclaringFile ==
    \A tree \in Rewritten : \A i \in DOMAIN tree.body :
        isAdded(tree.body[i]) =>
            \A depName \in tree.body[i].locals :
                pathResolve(dirname(tree.filename), tree.body[i].source)
                    = declaringFile(tree.body[i].origin.fn, depName,
                                    tree.body[i].origin.fullPath)

C5_ImportFromOtherFile ==
    /\ rewrite.ok /\ rewrite.filename = fMain
    /\ \E i \in DOMAIN rewrite.body :
        /\ isAdded(rewrite.body[i])
        /\ rewrite.body[i].locals = {"cache"} /\ rewrite.body[i].origin.fn = "F"
        /\ pathResolve(dirname(fMain), rewrite.body[i].source) = fZc

\* C6: in every rewritten program the inserted imports bind pairwise different names,
\* none binds a name an import written in the file binds, and all of them stand before
\* every statement of the source.
C6_NoDuplicateImports ==
    \A tree \in Rewritten :
        /\ \A i, j \in DOMAIN tree.body :
              isAdded(tree.body[i]) /\ isAdded(tree.body[j]) /\ i # j
                  => tree.body[i].locals \cap tree.body[j].locals = {}
        /\ \A i, j \in DOMAIN tree.body :
              isAdded(tree.body[i]) /\ ~isAdded(tree.body[j])
                  => /\ i < j
                     /\ ~\E n \in tree.body[i].locals : importsName(tree.body[j], n)

\* two inlined functions need `cache`: one import is added to main; extra imports it already
C6_SharedDependency ==
    /\ rewrite.ok /\ rewrite.filename = fNew
    /\ \E j \in DOMAIN rewrite.body : ~isAdded(rewrite.body[j]) /\ importsName(rewrite.body[j], "cache")
    /\ \E h \in DOMAIN astCache :
          /\ astCache[h].filename = fMain
          /\ Cardinality({i \in DOMAIN astCache[h].body :
                 isAdded(astCache[h].body[i]) /\ importsName(astCache[h].body[i], "cache")}) = 1
          /\ STATS.counts["F"] >= 2

----------------------------------------------------------------------------
(* Deduplication of the synthetic bindings of one transformed function.    *)
(* The body is the list of its declarators in traversal (source) order;    *)
(* inIf tells whether an IfStatement of the function encloses it.  Text is *)
(* a sequence of tokens.                                                   *)

MaxDecls == 3

Decl(name, kind, init, nonNull, inIf) ==
    [name |-> name, kind |-> kind, init |-> init, nonNull |-> nonNull, inIf |-> inIf]

SyntheticNames == <<"a_0_$f", "b_1_$f", "c_2_$f", "d_3_$f", "e_4_$f">>

endsWithF(variableName) == variableName \in Range(SyntheticNames)

\* generate(clonedInit).code, the non-null assertion at the top stripped (lines 39-46)
initCode(decl) == decl.init

\* the text as written, for a declaration that is kept
initText(decl) == IF decl.nonNull THEN decl.init \o <<"!">> ELSE decl.init

\* code.replace(`${varName}.`, replacement): the first occurrence only, the dot included
replaceFirst(code, varName, replacement) ==
    LET at == {i \in 1..(Len(code) - 1) : code[i] = varName /\ code[i + 1] = "."}
    IN IF at = {} THEN code
       ELSE LET i == CHOOSE k \in at : \A m \in at : k <= m
            IN SubSeq(code, 1, i - 1) \o replacement \o SubSeq(code, i + 2, Len(code))

\* lines 46-51
canonicalCode(decl, variableDeclarations) ==
    LET sub(code, entry) == replaceFirst(code, entry.name, entry.code)
    IN FoldLeft(sub, initCode(decl), variableDeclarations)

\* Map.set on an insertion-ordered map
orderedSet(entries, name, code) ==
    IF \E i \in DOMAIN entries : entries[i].name = name
    THEN [i \in DOMAIN entries |->
             IF entries[i].name = name THEN [name |-> name, code |-> code] ELSE entries[i]]
    ELSE Append(entries, [name |-> name, code |-> code])

DedupStart ==
    [expressionCounts |-> EmptyMap, variableDeclarations |-> <<>>,
     firstDeclarationForExpression |-> EmptyMap, variablesToReplace |-> EmptyMap,
     removed |-> {}, codes |-> <<>>]

\* the visitor without the scope tests of lines 73 and 75
visitMergeAlways(st, body, i) ==
    LET decl == body[i]
        skip == [st EXCEPT !.codes = Append(@, <<>>)]
    IN IF ~endsWithF(decl.name) \/ decl.kind # "const" THEN skip
       ELSE LET code == canonicalCode(decl, st.variableDeclarations)
                expressionCount ==
                    (IF code \in DOMAIN st.expressionCounts THEN st.expressionCounts[code] ELSE 0) + 1
                counted == [st EXCEPT
                    !.variableDeclarations = orderedSet(@, decl.name, code),
                    !.expressionCounts = MapSet(@, code, expressionCount),
                    !.codes = Append(@, code)]
            IN IF expressionCount > 1
               THEN [counted EXCEPT
                        !.variablesToReplace = MapSet(@, decl.name,
                            st.firstDeclarationForExpression[code].name),
                        !.removed = @ \cup {i}]
               ELSE [counted EXCEPT !.firstDeclarationForExpression =
                        MapSet(@, code, [name |-> decl.name, isInIfStatement |-> decl.inIf])]

\* lines 25-87: the VariableDeclarator visitor on the i-th declarator
visitDeclarator(st, body, i) ==
    LET decl == body[i]
        skip == [st EXCEPT !.codes = Append(@, <<>>)]
    IN IF ~endsWithF(decl.name) \/ decl.kind # "const" THEN skip
       ELSE LET code == canonicalCode(decl, st.variableDeclarations)
                expressionCount ==
                    (IF code \in DOMAIN st.expressionCounts THEN st.expressionCounts[code] ELSE 0) + 1
                isInIfStatement == decl.inIf
                counted == [st EXCEPT
                    !.variableDeclarations = orderedSet(@, decl.name, code),
                    !.expressionCounts = MapSet(@, code, expressionCount),
                    !.codes = Append(@, code)]
            IN IF expressionCount > 1
               THEN LET firstDeclaration == st.firstDeclarationForExpression[code]
                    IN IF isInIfStatement = firstDeclaration.isInIfStatement /\ ~isInIfStatement
                       THEN [counted EXCEPT
                                !.variablesToReplace = MapSet(@, decl.name, firstDeclaration.name),
                                !.removed = @ \cup {i}]
                       ELSE counted
               ELSE [counted EXCEPT !.firstDeclarationForExpression =
                        MapSet(@, code, [name |-> decl.name, isInIfStatement |-> isInIfStatement])]

\* the second traversal without its renaming
keepTokens(tokens, variablesToReplace) == tokens

\* lines 92-104: every identifier named in variablesToReplace is renamed
renameTokens(tokens, variablesToReplace) ==
    [k \in DOMAIN tokens |->
        IF tokens[k] \in DOMAIN variablesToReplace THEN variablesToReplace[tokens[k]]
        ELSE tokens[k]]

\* dedupVariables on one pure-transformed function: the declarators and the returned
\* expression it is left with
dedupVariables(body, returned) ==
    LET visit(st, i) == visitDeclarator(st, body, i)
        finish(st) ==
            [st |-> st,
             kept |-> {i \in DOMAIN body : i \notin st.removed},
             out |-> [i \in DOMAIN body |->
                        [body[i] EXCEPT !.init = renameTokens(initText(body[i]),
                                                     st.variablesToReplace)]],
             returned |-> renameTokens(returned, st.variablesToReplace)]
    IN Strict(finish, FoldLeft(visit, DedupStart, [i \in 1..Len(body) |-> i]))

PlainNames == <<"t0", "t1", "t2", "t3", "t4">>

ReadPos == <<"pos", "[", "eid", "]">>
ReadVel == <<"vel", "[", "eid", "]">>
ReadField == <<"a_0_$f", ".", "x">>

\* the declarators the i-th position of a body is drawn from
DeclVariants(i) ==
    {Decl(SyntheticNames[i], "const", init, FALSE, inIf) :
        init \in {ReadPos, ReadVel, ReadField}, inIf \in BOOLEAN}
    \cup {Decl(SyntheticNames[i], "const", ReadPos, TRUE, inIf) : inIf \in BOOLEAN}
    \cup {Decl(SyntheticNames[i], "let", ReadPos, FALSE, FALSE),
          Decl(PlainNames[i], "const", ReadPos, FALSE, FALSE)}

RECURSIVE BodiesOfLen(_)
BodiesOfLen(n) ==
    IF n = 0 THEN {<<>>}
    ELSE {Append(b, d) : b \in BodiesOfLen(n - 1), d \in DeclVariants(n)}

DedupBodies == UNION {BodiesOfLen(n) : n \in 1..MaxDecls}

NoResult == [st |-> DedupStart, kept |-> {}, out |-> <<>>, returned |-> <<>>]

\* lines 10-11: only the functions transformed with a pure callee are deduplicated
dedupFunction(isPure, body, returned) ==
    IF isPure THEN dedupVariables(body, returned)
    ELSE [NoResult EXCEPT !.kept = DOMAIN body, !.returned = returned,
                          !.out = [i \in DOMAIN body |-> [body[i] EXCEPT !.init = initText(body[i])]]]

InitDedup ==
    /\ InitSession
    /\ options = [followExports |-> TRUE, followImports |-> "true", debug |-> "false"]
    /\ splice = Idle
    /\ discovery = Idle
    /\ \E body \in DedupBodies, isPure \in BOOLEAN :
          dedup = [phase |-> "input", isPure |-> isPure, body |-> body,
                   returned |-> [i \in DOMAIN body |-> body[i].name], result |-> NoResult]

RunDedup ==
    /\ dedup.phase = "input"
    /\ dedup' = [dedup EXCEPT !.phase = "done",
                              !.result = dedupFunction(dedup.isPure, dedup.body, dedup.returned)]
    /\ UNCHANGED <<sessionVars, splice, discovery>>

NextDedup == RunDedup

SpecDedup == InitDedup /\ [][NextDedup]_vars

\* two synthetic const declarators of the body with the same canonical initializer
identicalBindings(i, j) ==
    /\ i # j
    /\ dedup.result.st.codes[i] # <<>>
    /\ dedup.result.st.codes[i] = dedup.result.st.codes[j]

Deduplicated == dedup.phase = "done" /\ dedup.isPure

\* C7: a binding declared outside any conditional and a binding of identical canonical
\* initializer declared inside an if are never merged, whichever comes first: every
\* binding inside an if remains, and a removed binding and the binding that replaces it
\* are both outside any if.
C7_Separation ==
    Deduplicated =>
        /\ \A i \in DOMAIN dedup.body : dedup.body[i].inIf => i \in dedup.result.kept
        /\ \A i \in DOMAIN dedup.body : i \notin dedup.result.kept =>
              /\ ~dedup.body[i].inIf
              /\ \E j \in dedup.result.kept :
                    /\ dedup.body[j].name = dedup.result.st.variablesToReplace[dedup.body[i].name]
                    /\ ~dedup.body[j].inIf
                    /\ identicalBindings(i, j)
        /\ \A i, j \in DOMAIN dedup.body :
              identicalBindings(i, j) /\ dedup.body[i].inIf /\ ~dedup.body[j].inIf
              /\ (\A k \in DOMAIN dedup.body : identicalBindings(j, k) => dedup.body[k].inIf)
                  => i \in dedup.result.kept /\ j \in dedup.result.kept

C7_BothRemain ==
    /\ Deduplicated
    /\ \E i, j, k \in DOMAIN dedup.body :
          /\ i < j /\ j < k
          /\ identicalBindings(i, j) /\ identicalBindings(j, k)
          /\ ~dedup.body[i].inIf /\ dedup.body[j].inIf /\ ~dedup.body[k].inIf
          /\ dedup.result.kept = {i, j}

\* C8: of two synthetic const bindings with identical canonical initializer that both
\* lie outside any conditional the later one is removed, whatever the other bindings of
\* the function are.
C8_Collapse ==
    Deduplicated =>
        \A i, j \in DOMAIN dedup.body :
            identicalBindings(i, j) /\ i < j /\ ~dedup.body[i].inIf /\ ~dedup.body[j].inIf
                => j \notin dedup.result.kept

C8_IfFirstThenTwoOutside ==
    /\ Deduplicated /\ Len(dedup.body) = 3
    /\ identicalBindings(1, 2) /\ identicalBindings(2, 3)
    /\ dedup.body[1].inIf /\ ~dedup.body[2].inIf /\ ~dedup.body[3].inIf
    /\ dedup.result.kept = {1, 2, 3}

----------------------------------------------------------------------------
(* Control-flow splicing of one caller.  A statement is an effect, a       *)
(* return, a call of an inlinable function, or an if whose branches are    *)
(* statement lists, each branch a block or a single statement.             *)

MaxStmts == 2

Effect(e) == [type |-> "effect", name |-> e]
Return == [type |-> "return", name |-> ""]
CallStmt(f) == [type |-> "call", name |-> f]

\* if (test) consequent else alternate; testCall names the call in the test, if any
IfStmt(cond, testCall, consequent, consBlock, alternate, altBlock) ==
    [type |-> "if", name |-> cond, testCall |-> testCall,
     consequent |-> consequent, consBlock |-> consBlock,
     alternate |-> alternate, altBlock |-> altBlock]

Conds == {"c", "d"}

\* the bodies of the inlinable functions
Callees ==
    [early |-> <<IfStmt("c", "", <<Return>>, FALSE, <<>>, FALSE), Effect("S1"), Effect("S2")>>,
     guard |-> <<IfStmt("c", "", <<Effect("E")>>, TRUE, <<>>, FALSE), Effect("S1")>>,
     two   |-> <<Effect("A1"), Effect("A2")>>,
     other |-> <<Effect("B1"), Effect("B2"), Return>>]

\* the observable behaviour of a statement list: the effects and the tests in the order
\* they happen, and whether it ended in a return
RECURSIVE exec(_, _)
exec(stmts, env) ==
    LET step(acc, stmt) ==
            IF acc.returned THEN acc
            ELSE IF stmt.type = "effect" THEN [acc EXCEPT !.trace = Append(@, stmt.name)]
            ELSE IF stmt.type = "return" THEN [acc EXCEPT !.returned = TRUE]
            ELSE IF stmt.type = "call"
            THEN [acc EXCEPT !.trace = @ \o exec(Callees[stmt.name], env).trace]
            ELSE LET before == IF stmt.testCall = "" THEN <<>>
                               ELSE exec(Callees[stmt.testCall], env).trace
                     taken(r) == [trace |-> acc.trace \o before \o <<"test " \o stmt.name>>
                                              \o r.trace,
                                  returned |-> r.returned]
                 IN Strict(taken, exec(IF env[stmt.name] THEN stmt.consequent
                                       ELSE stmt.alternate, env))
    IN FoldLeft(step, [trace |-> <<>>, returned |-> FALSE], stmts)

endsInReturn(stmts) == stmts # <<>> /\ stmts[Len(stmts)].type = "return"

withoutReturn(stmts) == IF endsInReturn(stmts) THEN SubSeq(stmts, 1, Len(stmts) - 1) ELSE stmts

\* step 3 without the re-nesting: the early return is dropped, what follows stays
\* after the if
keepAfterIf(body) ==
    LET one(acc, stmt) ==
            IF stmt.type = "return" THEN acc
            ELSE IF stmt.type = "if"
            THEN Append(acc, [stmt EXCEPT !.consequent = withoutReturn(@), !.consBlock = TRUE,
                                          !.alternate = withoutReturn(@)])
            ELSE Append(acc, stmt)
    IN FoldLeft(one, <<>>, body)

\* step 3: the statements following a conditional early return are re-nested under the
\* else of that condition; after an if that does not return they stay where they are
RECURSIVE nestEarlyExits(_)
nestEarlyExits(body) ==
    IF body = <<>> THEN <<>>
    ELSE LET stmt == Head(body)
             rest == Tail(body)
         IN IF stmt.type = "return" THEN <<>>
            ELSE IF stmt.type = "if" /\ endsInReturn(stmt.consequent)
            THEN <<[stmt EXCEPT !.consequent = withoutReturn(@), !.consBlock = TRUE,
                                !.alternate = stmt.alternate \o nestEarlyExits(rest),
                                !.altBlock = TRUE]>>
            ELSE IF stmt.type = "if" /\ endsInReturn(stmt.alternate)
            THEN <<[stmt EXCEPT !.alternate = withoutReturn(@), !.altBlock = TRUE,
                                !.consequent = stmt.consequent \o nestEarlyExits(rest),
                                !.consBlock = TRUE]>>
            ELSE <<stmt>> \o nestEarlyExits(rest)

\* step 2: the statements a call of f is replaced by
graft(f) == nestEarlyExits(Callees[f])

NoBranch == [needsWrapping |-> FALSE, branch |-> "null"]

\* detectInlineIfBranch that looks at the consequent only
detectConsequentOnly(callPath, statementPath) ==
    IF statementPath.type # "if" THEN NoBranch
    ELSE IF ~statementPath.consBlock /\ callPath.within = "consequent"
    THEN [needsWrapping |-> TRUE, branch |-> "consequent"]
    ELSE NoBranch

\* detectInlineIfBranch(callPath, statementPath): callPath.within tells which child of the
\* statement the call lies in
detectInlineIfBranch(callPath, statementPath) ==
    IF statementPath.type # "if" THEN NoBranch
    ELSE IF ~statementPath.consBlock /\ callPath.within = "consequent"
    THEN [needsWrapping |-> TRUE, branch |-> "consequent"]
    ELSE IF statementPath.alternate # <<>> /\ ~statementPath.altBlock
            /\ callPath.within = "alternate"
    THEN [needsWrapping |-> TRUE, branch |-> "alternate"]
    ELSE NoBranch

isCall(stmts) == Len(stmts) = 1 /\ stmts[1].type = "call"

\* steps 2 and 4 for the call in child `within` of an if statement: the branch is made a
\* block and the graft goes into it, else the graft goes before the statement
spliceInIf(st, within) ==
    LET f == IF within = "test" THEN st.stmt.testCall
             ELSE IF within = "consequent" THEN st.stmt.consequent[1].name
             ELSE st.stmt.alternate[1].name
        found == detectInlineIfBranch([within |-> within], st.stmt)
    IN IF found.needsWrapping /\ found.branch = "consequent"
       THEN [st EXCEPT !.stmt.consequent = graft(f), !.stmt.consBlock = TRUE]
       ELSE IF found.needsWrapping /\ found.branch = "alternate"
       THEN [st EXCEPT !.stmt.alternate = graft(f), !.stmt.altBlock = TRUE]
       ELSE IF within = "test"
       THEN [st EXCEPT !.before = @ \o graft(f), !.stmt.testCall = ""]
       ELSE IF within = "consequent"
       THEN [st EXCEPT !.before = @ \o graft(f), !.stmt.consequent = <<>>]
       ELSE [st EXCEPT !.before = @ \o graft(f), !.stmt.alternate = <<>>]

\* the call sites of a statement list resolved, in source order
RECURSIVE inlineBody(_)
inlineBody(stmts) ==
    LET inBlock(branch, block) == IF block THEN inlineBody(branch) ELSE branch
        one(acc, stmt) ==
            IF stmt.type = "call" THEN acc \o graft(stmt.name)
            ELSE IF stmt.type # "if" THEN Append(acc, stmt)
            ELSE LET s0 == [before |-> <<>>, stmt |-> stmt]
                     s1 == IF stmt.testCall # "" THEN spliceInIf(s0, "test") ELSE s0
                     s2 == IF ~stmt.consBlock /\ isCall(stmt.consequent)
                           THEN spliceInIf(s1, "consequent") ELSE s1
                     s3 == IF ~stmt.altBlock /\ isCall(stmt.alternate)
                           THEN spliceInIf(s2, "alternate") ELSE s2
                 IN acc \o s3.before \o
                    <<[s3.stmt EXCEPT !.consequent = inBlock(@, stmt.consBlock),
                                      !.alternate = inBlock(@, stmt.altBlock)]>>
    IN FoldLeft(one, <<>>, stmts)

StmtVariants ==
    {CallStmt(f) : f \in {"early", "guard", "two", "other"}}
    \cup {IfStmt("d", "two", <<Effect("X")>>, FALSE, <<>>, FALSE)}
    \cup {IfStmt("d", "", <<CallStmt(f)>>, FALSE, alt[1], alt[2]) :
            f \in {"two", "early"},
            alt \in {<< <<>>, FALSE >>, << <<CallStmt("other")>>, FALSE >>,
                     << <<CallStmt("other")>>, TRUE >>, << <<Effect("Y")>>, FALSE >>}}
    \cup {IfStmt("d", "", <<CallStmt("two")>>, TRUE, alt, FALSE) :
            alt \in {<<>>, <<CallStmt("other")>>}}
    \cup {IfStmt("d", "", <<Effect("X")>>, FALSE, <<CallStmt(f)>>, FALSE) :
            f \in {"other", "early"}}

RECURSIVE StmtsOfLen(_)
StmtsOfLen(n) ==
    IF n = 0 THEN {<<>>}
    ELSE {Append(b, stmt) : b \in StmtsOfLen(n - 1), stmt \in StmtVariants}

Callers ==
    {<<Effect("pre")>> \o middle \o <<Effect("post")>> :
        middle \in UNION {StmtsOfLen(n) : n \in 1..MaxStmts}}

InitSplice ==
    /\ InitSession
    /\ options = [followExports |-> TRUE, followImports |-> "true", debug |-> "false"]
    /\ dedup = Idle
    /\ discovery = Idle
    /\ \E caller \in Callers : splice = [phase |-> "input", caller |-> caller, out |-> <<>>]

RunSplice ==
    /\ splice.phase = "input"
    /\ splice' = [splice EXCEPT !.phase = "done", !.out = inlineBody(splice.caller)]
    /\ UNCHANGED <<sessionVars, dedup, discovery>>

NextSplice == RunSplice

SpecSplice == InitSplice /\ [][NextSplice]_vars

Envs == [Conds -> BOOLEAN]

Spliced == splice.phase = "done"

callsOnly(stmts) == \A i \in DOMAIN stmts : stmts[i].type \in {"effect", "call"}

callsOf(stmts, f) == {i \in DOMAIN stmts : stmts[i] = CallStmt(f)}

happens(e, stmts, env) == e \in Range(exec(stmts, env).trace)

\* C3: a caller whose call sites are statements behaves after splicing as before it; the
\* statements after the early return of `if (c) return; S` run exactly when c is
\* false, the caller's statements after the call run in both cases, and the statements
\* after an if that does not return are not put under an else.
C3_EarlyExitPreserved ==
    Spliced /\ callsOnly(splice.caller) =>
        /\ \A env \in Envs :
              /\ exec(splice.out, env).trace = exec(splice.caller, env).trace
              /\ happens("post", splice.out, env)
              /\ callsOf(splice.caller, "early") # {}
                    => (happens("S2", splice.out, env) <=> ~env["c"])
              /\ callsOf(splice.caller, "guard") # {} => happens("S1", splice.out, env)
        /\ \A i \in DOMAIN splice.out :
              splice.out[i].type = "if" /\ splice.out[i].consequent = <<Effect("E")>>
                  => /\ splice.out[i].alternate = <<>>
                     /\ splice.out[i + 1] = Effect("S1")

C3_EarlyAndGuard ==
    /\ Spliced
    /\ splice.caller = <<Effect("pre"), CallStmt("early"), CallStmt("guard"), Effect("post")>>
    /\ splice.out[2].alternate = <<Effect("S1"), Effect("S2")>>
    /\ splice.out[3].alternate = <<>>
    /\ Len(splice.out) = 5

nonBlockCall(stmt) ==
    /\ stmt.type = "if"
    /\ \/ ~stmt.consBlock /\ isCall(stmt.consequent)
       \/ ~stmt.altBlock /\ isCall(stmt.alternate)

\* C4: when a call in a non-block consequent or alternate is inlined, the branch has
\* become a block that holds everything spliced for it: for every outcome of the
\* conditions the caller performs the effects and the tests it performed before, in the
\* same order (no spliced statement runs when the other branch is taken, none before
\* the test), and a branch of more than one statement is a block.
C4_BranchNormalized ==
    Spliced /\ (\E i \in DOMAIN splice.caller : nonBlockCall(splice.caller[i])) =>
        /\ \A env \in Envs : exec(splice.out, env).trace = exec(splice.caller, env).trace
        /\ \A i \in DOMAIN splice.out : splice.out[i].type = "if" =>
              /\ Len(splice.out[i].consequent) > 1 => splice.out[i].consBlock
              /\ Len(splice.out[i].alternate) > 1 => splice.out[i].altBlock

C4_BothBranchesWrapped ==
    /\ Spliced
    /\ splice.caller = <<Effect("pre"),
                         IfStmt("d", "", <<CallStmt("two")>>, FALSE, <<CallStmt("other")>>, FALSE),
                         Effect("post")>>
    /\ splice.out = <<Effect("pre"),
                      IfStmt("d", "", <<Effect("A1"), Effect("A2")>>, TRUE,
                                      <<Effect("B1"), Effect("B2")>>, TRUE),
                      Effect("post")>>

----------------------------------------------------------------------------
(* Reference discovery over small projects.  src/a.ts and src/bad.ts (which *)
(* does not parse) are what the glob returns; src/a.ts and src/b.ts carry   *)
(* the reference statements; node_modules/x.ts is excluded and re-exports   *)
(* lib/c.ts.                                                                *)

\* the largest number of import and export statements of a project
MaxRefs == 2

dA == File(<<"src">>, "a", ".ts")
dB == File(<<"src">>, "b", ".ts")
dC == File(<<"lib">>, "c", ".ts")
dX == File(<<"node_modules">>, "x", ".ts")
dMissing == File(<<"src">>, "missing", ".ts")

\* stands for the bare specifier 'b' of a package
PackageB == File(<<>>, "b", "package")

DiscoveryDisk == {dA, dB, dC, dX, fBad}

DiscoveryInitial == <<dA, fBad>>

AllFollowImports == {"false", "none", "side-effects", "all", "true"}

\* the specifier a statement of file `from` names `to` by: ./b, ../lib/c, or the
\* package b
specifier(from, to) ==
    IF to = PackageB THEN Pkg("b")
    ELSE [createRelativePath(from, to) EXCEPT !.ext = ""]

\* what the statements of a file may name: src/a.ts itself, src/b.ts, the excluded file
\* and a package; src/b.ts back src/a.ts, lib/c.ts, a file that does not exist and a
\* package
RefTargets(from) ==
    IF from = dA THEN {dA, dB, dX, PackageB} ELSE {dA, dC, dMissing, PackageB}

RefStatements(from) ==
    UNION {{Import({"n"}, specifier(from, to)), Import({}, specifier(from, to)),
            ExportAll(specifier(from, to)), ExportNamed({"n"}, specifier(from, to))}
           : to \in RefTargets(from)}

RECURSIVE RefsOfLen(_, _)
RefsOfLen(from, n) ==
    IF n = 0 THEN {<<>>}
    ELSE {Append(q, r) : q \in RefsOfLen(from, n - 1), r \in RefStatements(from)}

\* the projects: what src/a.ts and src/b.ts hold
Projects ==
    UNION {{[a |-> qa, b |-> qb] : qa \in RefsOfLen(dA, na), qb \in RefsOfLen(dB, nb)}
           : <<na, nb>> \in {n \in (0..MaxRefs) \X (0..MaxRefs) : n[1] + n[2] <= MaxRefs}}

\* parse(readFileSync(f)) of every file of the project
parsedProject(project) ==
    [f \in DiscoveryDisk |->
        CASE f = dA -> Tree(dA, project.a, {}, <<>>)
          [] f = dB -> Tree(dB, project.b, {}, <<>>)
          [] f = dC -> Tree(dC, <<>>, {}, <<>>)
          [] f = dX -> Tree(dX, <<ExportAll(specifier(dX, dC))>>, {}, <<>>)
          [] OTHER -> ParseFail]

\* a call of discoverFilesViaReferences on a project, under one of the option pairs
discoveryCalled(optionPairs) ==
    /\ InitSession
    /\ splice = Idle
    /\ dedup = Idle
    /\ options \in optionPairs
    /\ \E project \in Projects :
          discovery = [phase |-> "called", project |-> project,
                       st |-> discoverStart(DiscoveryInitial)]

InitDiscovery ==
    discoveryCalled([followExports : BOOLEAN, followImports : AllFollowImports,
                     debug : {"false"}])

\* the options under which the loop follows the most statements: every re-export and
\* every relative import
InitFollowing ==
    discoveryCalled([followExports : {TRUE}, followImports : {"all"}, debug : {"false"}])

\* lines 37-50: the early return, or the loop is entered
EnterDiscovery ==
    /\ discovery.phase = "called"
    /\ discovery' = [discovery EXCEPT !.phase =
                        IF ~options.followExports /\ options.followImports = "false"
                        THEN "returned" ELSE "loop"]
    /\ UNCHANGED <<sessionVars, splice, dedup>>

\* lines 52-134: one iteration of while (toProcess.length > 0)
DiscoveryIteration ==
    /\ discovery.phase = "loop"
    /\ discovery.st.toProcess # <<>>
    /\ discovery' = [discovery EXCEPT !.st =
                        discoverStep(@, options.followImports,
                                     parsedProject(discovery.project))]
    /\ UNCHANGED <<sessionVars, splice, dedup>>

\* lines 136-144: the loop is left and the result returned
ReturnDiscovery ==
    /\ discovery.phase = "loop"
    /\ discovery.st.toProcess = <<>>
    /\ discovery' = [discovery EXCEPT !.phase = "returned"]
    /\ UNCHANGED <<sessionVars, splice, dedup>>

NextDiscovery == EnterDiscovery \/ DiscoveryIteration \/ ReturnDiscovery

SpecDiscovery == InitDiscovery /\ [][NextDiscovery]_vars

\* the loop is a sequential program: it takes its next step whenever it has one
FairDiscovery == InitFollowing /\ [][NextDiscovery]_vars /\ WF_vars(NextDiscovery)

\* the statements of the parsed file src, of one of the types, whose relative specifier
\* resolves to the file t
refersTo(src, t, types) ==
    LET ast == parsedProject(discovery.project)[src]
    IN {i \in DOMAIN ast.body :
          /\ ast.body[i].type \in types
          /\ ast.body[i].source.rel
          /\ resolveExportPath(ast.body[i].source, dirname(src), DiscoveryDisk) = t}

Started == discovery.phase # "called"

\* the file that was being processed when t was added to the file set
admittedFrom(t) == discovery.st.prov[t][1]

\* C13: with followExports false, whatever followImports is, a file is only ever added
\* to the file set from a file that imports it: no file is admitted through an
\* `export * from` or `export { ... } from` statement.
C13_ExportsOff ==
    Started /\ ~options.followExports =>
        \A t \in DOMAIN discovery.st.prov : refersTo(admittedFrom(t), t, {"import"}) # {}

C13_ReExportFollowed ==
    /\ Started /\ discovery.phase = "returned"
    /\ ~options.followExports /\ options.followImports = "none"
    /\ discovery.project.a = <<ExportAll(specifier(dA, dB))>>
    /\ SeqContains(discovery.st.files, dB)

\* the import statements the policy follows
policyFollows(node) ==
    /\ node.type = "import"
    /\ \/ options.followImports \in {"all", "true"}
       \/ options.followImports = "side-effects" /\ node.locals = {}

\* C14: a file that discovery has parsed passes on every file that one of its relative
\* imports followed by the policy resolves to (unless excluded), and a file is only
\* ever admitted through a re-export or through a relative import that the policy
\* follows: all of them under 'all' and true, those without specifiers under
\* 'side-effects', none under false and 'none', and never a package specifier.
C14_ImportPolicy ==
    Started =>
        /\ \A t \in DOMAIN discovery.st.prov :
              \E i \in refersTo(admittedFrom(t), t, {"import", "export *", "export {...}"}) :
                 LET node == parsedProject(discovery.project)[admittedFrom(t)].body[i]
                 IN node.type = "import" => policyFollows(node)
        /\ discovery.phase = "returned" =>
              \A f \in Range(discovery.st.reads), t \in DiscoveryDisk :
                 /\ parsedProject(discovery.project)[f].ok
                 /\ ~IsExcluded(t)
                 /\ \E i \in refersTo(f, t, {"import"}) :
                       policyFollows(parsedProject(discovery.project)[f].body[i])
                 => SeqContains(discovery.st.files, t)

C14_SideEffectOnly ==
    /\ Started /\ discovery.phase = "returned"
    /\ ~options.followExports /\ options.followImports = "side-effects"
    /\ discovery.project.a = <<Import({}, specifier(dA, dB))>>
    /\ discovery.project.b = <<Import({"n"}, specifier(dB, dC))>>
    /\ SeqContains(discovery.st.files, dB)
    /\ SeqContains(discovery.st.reads, dB)
    /\ ~SeqContains(discovery.st.files, dC)

\* C15: discovery returns for every project, also when files re-export or import each
\* other in a cycle or themselves, and no file is read and parsed twice.
C15_DiscoveryTerminates ==
    /\ [](\A i, j \in DOMAIN discovery.st.reads :
             discovery.st.reads[i] = discovery.st.reads[j] => i = j)
    /\ <>(discovery.phase = "returned")

C15_CycleVisitedOnce ==
    /\ discovery.phase = "returned"
    /\ discovery.project.a = <<ExportAll(specifier(dA, dB))>>
    /\ discovery.project.b = <<ExportNamed({"n"}, specifier(dB, dA))>>
    /\ discovery.st.reads = <<dA, fBad, dB>>

\* the statements discovery follows under the options: none when it returns at once,
\* else the re-exports and the imports of the policy
followed(node) ==
    /\ options.followExports \/ options.followImports # "false"
    /\ node.type \in {"export *", "export {...}"} \/ policyFollows(node)

\* the files one followed statement away from the files of S: the statement is in a
\* file that parses, resolves to an existing file, and that file is not excluded
oneStepFrom(S) ==
    {t \in DiscoveryDisk :
        /\ ~IsExcluded(t)
        /\ \E f \in S :
              /\ parsedProject(discovery.project)[f].ok
              /\ \E i \in refersTo(f, t, {"import", "export *", "export {...}"}) :
                    followed(parsedProject(discovery.project)[f].body[i])}

\* the smallest set that contains S and is closed under oneStepFrom
RECURSIVE closure(_)
closure(S) ==
    LET again(T) == IF T = S THEN S ELSE closure(T)
    IN Strict(again, S \cup oneStepFrom(S))

----------------------------------------------------------------------------
(* Call sites: which calls are inlined, and how the callee's parameters are *)
(* bound to the arguments of the call.  processData is declared with the    *)
(* inline tag, logUserActivity without it; `external` is declared nowhere.  *)

\* the largest number of parameters of a callee and of arguments of a call
MaxParams == 3

NoDefault == ""

UndefinedSentinel == "undefined"

Param(name, default) == [name |-> name, default |-> default]

\* a call expression: the callee's name, the argument expressions and whether the
\* call's own comment carries the inline tag
CallSite(callee, args, tagged) == [callee |-> callee, args |-> args, tagged |-> tagged]

ParamNames == [i \in 1..(MaxParams + 1) |-> <<"a", "b", "c", "d", "e">>[i]]

Arguments == [i \in 1..(MaxParams + 1) |-> <<"10", "20", "30", "40", "50">>[i]]

\* the parameter lists: up to MaxParams parameters, each with a default value or not
ParamLists ==
    UNION {{[i \in 1..n |-> Param(ParamNames[i], d[i])] : d \in [1..n -> {NoDefault, "1"}]}
           : n \in 0..MaxParams}

\* the declarations collection has seen: both functions have the same parameters
Declarations(params) ==
    [name \in {"processData", "logUserActivity"} |->
        [inline |-> name = "processData", params |-> params]]

CallSites ==
    {CallSite(callee, SubSeq(Arguments, 1, n), tagged) :
        callee \in {"processData", "logUserActivity", "external"},
        n \in 0..MaxParams, tagged \in BOOLEAN}

\* the synthetic name of a parameter in the splice of the call at `site`
Synthetic(param, site) == [param |-> param, site |-> site]

\* binding only the parameters that have an argument: a parameter without one has no
\* entry in the parameter mapping, and replacing it fails
bindSuppliedArguments(params, args, site) ==
    [ok |-> Len(args) >= Len(params),
     bindings |-> [i \in 1..Min(Len(params), Len(args)) |->
                     [k |-> "bind", site |-> site, name |-> Synthetic(params[i].name, site),
                      init |-> args[i]]]]

\* step 1: one synthetic binding per parameter, in order, initialised with the
\* argument, else the parameter's default, else the undefined sentinel
bindParameters(params, args, site) ==
    [ok |-> TRUE,
     bindings |-> [i \in 1..Len(params) |->
                     [k |-> "bind", site |-> site, name |-> Synthetic(params[i].name, site),
                      init |-> IF i <= Len(args) THEN args[i]
                               ELSE IF params[i].default # NoDefault THEN params[i].default
                               ELSE UndefinedSentinel]]]

\* resolution with the declaration's tag only
inlineByDeclaration(site, declared) ==
    site.callee \in DOMAIN declared /\ declared[site.callee].inline

\* resolution precedence: the callee must be known; a tagged call is inlined whatever
\* the declaration says, an untagged call when the declaration is tagged
shouldInline(site, declared) ==
    /\ site.callee \in DOMAIN declared
    /\ site.tagged \/ declared[site.callee].inline

\* the callee's body with its parameters renamed to the synthetic names
graftedBody(callee, params, site) ==
    [k |-> "body", site |-> site, of |-> callee,
     reads |-> [i \in 1..Len(params) |-> Synthetic(params[i].name, site)]]

\* the call sites of a function body resolved one after the other
spliceCalls(caller, declared) ==
    LET one(acc, i) ==
            IF ~acc.ok THEN acc
            ELSE IF ~shouldInline(caller[i], declared)
            THEN [acc EXCEPT !.out = Append(@, [k |-> "call", site |-> i,
                                                 callee |-> caller[i].callee,
                                                 args |-> caller[i].args])]
            ELSE LET params == declared[caller[i].callee].params
                     bound == bindParameters(params, caller[i].args, i)
                 IN IF ~bound.ok THEN [ok |-> FALSE, out |-> <<>>]
                    ELSE [acc EXCEPT !.out = @ \o bound.bindings
                                        \o <<graftedBody(caller[i].callee, params, i)>>]
    IN FoldLeft(one, [ok |-> TRUE, out |-> <<>>], [i \in DOMAIN caller |-> i])

InitCalls ==
    /\ InitSession
    /\ options = [followExports |-> TRUE, followImports |-> "true", debug |-> "false"]
    /\ dedup = Idle
    /\ discovery = Idle
    /\ \E params \in ParamLists, first \in CallSites, second \in CallSites :
          splice = [phase |-> "input", declared |-> Declarations(params),
                    caller |-> <<first, second>>, result |-> [ok |-> TRUE, out |-> <<>>]]

RunCalls ==
    /\ splice.phase = "input"
    /\ splice' = [splice EXCEPT !.phase = "done",
                                !.result = spliceCalls(splice.caller, splice.declared)]
    /\ UNCHANGED <<sessionVars, dedup, discovery>>

NextCalls == RunCalls

SpecCalls == InitCalls /\ [][NextCalls]_vars

CallsDone == splice.phase = "done"

\* the statements the call at `site` has become
stmtsOf(site) ==
    {splice.result.out[j] : j \in {i \in DOMAIN splice.result.out :
                                      splice.result.out[i].site = site}}

\* a call that resolution inlines and that passes fewer arguments than the callee has
\* parameters
shortInlinedCall(site) ==
    /\ splice.caller[site].callee \in DOMAIN splice.declared
    /\ splice.caller[site].tagged \/ splice.declared[splice.caller[site].callee].inline
    /\ Len(splice.caller[site].args) < Len(splice.declared[splice.caller[site].callee].params)

C20_CallSiteTag ==
    CallsDone /\ splice.result.ok =>
        \A site \in DOMAIN splice.caller :
            LET call == splice.caller[site]
            IN call.callee \in DOMAIN splice.declared
                  /\ ~splice.declared[call.callee].inline =>
                     IF call.tagged
                     THEN /\ \A s \in stmtsOf(site) : s.k # "call"
                          /\ \E s \in stmtsOf(site) : s.k = "body" /\ s.of = call.callee
                     ELSE stmtsOf(site) = {[k |-> "call", site |-> site,
                                            callee |-> call.callee, args |-> call.args]}

C20_OneOfTwoSites ==
    /\ CallsDone /\ splice.result.ok
    /\ splice.caller[1] = CallSite("logUserActivity", <<"10", "20">>, FALSE)
    /\ splice.caller[2] = CallSite("logUserActivity", <<"10", "20">>, TRUE)
    /\ \E s \in stmtsOf(1) : s.k = "call"
    /\ \E s \in stmtsOf(2) : s.k = "body"

----------------------------------------------------------------------------
(* Transforming a produced text again.  The host hands the text a transform *)
(* returned to the same instance once more, under the same identifier.      *)

\* parse of a text that generate printed: its statements and functions as printed; the
\* module-level declarations, which the model's text does not show, are those of the
\* program the text was printed from
parseText(text, filename, decls) ==
    Tree(filename,
         [i \in DOMAIN text.body |->
             [type |-> text.body[i].type, locals |-> text.body[i].locals,
              source |-> text.body[i].source, origin |-> Written]],
         decls, text.fns)

\* hashContent of a produced text, which is the text of no file on disk
hashText(text) == <<"md5", "generated", text>>

\* the try block of transform on a produced text: the text is in no astCache entry, so
\* it is parsed, inlined and its text stored
transformedText(S, text, id, decls) ==
    LET hash == hashText(text)
        ast == parseText(text, id, decls)
        W == [heap |-> MapSet(S.astCache, PrivateKey, ast), table |-> S.table,
              disk |-> DOMAIN Disk]
        stored(r) ==
            [ok |-> TRUE, code |-> r.code, tree |-> r.tree,
             S |-> [S EXCEPT !.codeCache = MapSet(@, hash, r.code),
                             !.stats = statsAfter(@, ast, S.table)]]
    IN Strict(stored, inlineFunctions(PrivateKey, W))

\* transform(code, id) with a produced text for code; `source` names the text it was
\* produced from
transformText(text, source, id, decls, globThrows) ==
    IF ~IsSourceId(id)
    THEN Install(Current) /\ Report("transform output", source, id, Null, FALSE, Current)
         /\ UNCHANGED rewrite
    ELSE \E S \in {scanAndCollectMetadata(globThrows)} :
         LET hash == hashText(text)
         IN IF S.threw
            THEN Install(S) /\ Report("transform output", source, id, Thrown, FALSE, S)
                 /\ UNCHANGED rewrite
            ELSE IF hash \in DOMAIN S.codeCache
            THEN Install(S) /\ UNCHANGED rewrite
                 /\ Report("transform output", source, id, Code(S.codeCache[hash]), FALSE, S)
            ELSE \E t \in {transformedText(S, text, id, decls)} :
                 \E thrown \in InlinerOutcomes :
                    /\ thrown = "throws at the end" => WithinCount(t.S.stats)
                    /\ CASE thrown = "returns" ->
                              Install(t.S) /\ rewrite' = t.tree
                              /\ Report("transform output", source, id, Code(t.code), TRUE, S)
                         [] thrown = "throws at once" ->
                              Install(S) /\ UNCHANGED rewrite
                              /\ Report("transform output", source, id, Null, TRUE,
                                        [S EXCEPT !.failure = "inline"])
                         [] thrown = "throws at the end" ->
                              Install([t.S EXCEPT !.codeCache = S.codeCache])
                              /\ UNCHANGED rewrite
                              /\ Report("transform output", source, id, Null, TRUE,
                                        [S EXCEPT !.failure = "inline"])

InitFixedPoint ==
    /\ InitSession
    /\ options = [followExports |-> TRUE, followImports |-> "true", debug |-> "false"]
    /\ splice = Idle
    /\ dedup = Idle
    /\ discovery = Idle

\* the text the last transform returned is transformed in its turn
TransformOutput ==
    /\ ret.op = "transform" /\ ret.result.kind = "code"
    /\ transformText(ret.result.code, ret.code, ret.id, parse(ret.code, ret.id).decls, FALSE)
    /\ UNCHANGED <<options, splice, dedup, discovery, other>>

NextFixedPoint == BuildStart \/ Transform \/ TransformOutput \/ BuildEnd

SpecFixedPoint == InitFixedPoint /\ [][NextFixedPoint]_vars

----------------------------------------------------------------------------
(* Names of the generated bindings.  The file being transformed holds the   *)
(* two functions of the fixture inline-with-pure-functions; each is a list  *)
(* of calls, and the splice of an inlined call generates one binding per    *)
(* base (a parameter of the callee, or the local that holds its result).    *)

\* the largest number of calls in one function
MaxCalls == 2

NameSuffix == "_$f"

\* `${base}_${counter}_$f`
SyntheticName(base, counter) == [base |-> base, counter |-> counter, suffix |-> NameSuffix]

FunctionNames == <<"inlineInReturnStatement", "inlineWithIfStatement">>

\* the bases a splice of each inline-tagged callee generates names for; multiply is
\* tagged pure only and stays a call
GeneratedBases ==
    ("addOneToGeneratedNumber" :> <<"result">>)
    @@ ("getUser" :> <<"getUser_result">>)
    @@ ("processData" :> <<"a", "b", "c">>)

NamingCallees == DOMAIN GeneratedBases \cup {"multiply"}

CallLists == UNION {[1..n -> NamingCallees] : n \in 0..MaxCalls}

\* the names the calls of one function get, the counter starting at `counter`
nameCalls(calls, counter) ==
    LET one(acc, callee) ==
            IF callee \notin DOMAIN GeneratedBases THEN acc
            ELSE LET bases == GeneratedBases[callee]
                 IN [counter |-> acc.counter + Len(bases),
                     names |-> acc.names \o
                         [i \in DOMAIN bases |-> SyntheticName(bases[i], acc.counter + i - 1)]]
    IN FoldLeft(one, [counter |-> counter, names |-> <<>>], calls)

\* numbering that starts again at 0 in every function
generateNamesPerFunction(functions) ==
    [f \in DOMAIN functions |-> nameCalls(functions[f], 0).names]

\* the names generated in the functions of one file, in source order: the counter goes
\* on from one function to the next
generateNames(functions) ==
    LET one(acc, calls) ==
            LET named == nameCalls(calls, acc.counter)
            IN [counter |-> named.counter, out |-> Append(acc.out, named.names)]
    IN FoldLeft(one, [counter |-> 0, out |-> <<>>], functions).out

InitNaming ==
    /\ InitSession
    /\ options = [followExports |-> TRUE, followImports |-> "true", debug |-> "false"]
    /\ dedup = Idle
    /\ discovery = Idle
    /\ \E functions \in [DOMAIN FunctionNames -> CallLists] :
          splice = [phase |-> "input", functions |-> functions, names |-> <<>>]

RunNaming ==
    /\ splice.phase = "input"
    /\ splice' = [splice EXCEPT !.phase = "done", !.names = generateNames(splice.functions)]
    /\ UNCHANGED <<sessionVars, dedup, discovery>>

NextNaming == RunNaming

SpecNaming == InitNaming /\ [][NextNaming]_vars

Named == splice.phase = "done"

wellFormed(name) ==
    /\ name.suffix = "_$f"
    /\ name.counter \in Nat
    /\ \E callee \in DOMAIN GeneratedBases : SeqContains(GeneratedBases[callee], name.base)

increasing(names) ==
    \A i, j \in DOMAIN names : i < j => names[i].counter < names[j].counter

----------------------------------------------------------------------------
(* Deduplication and the blocks of the function.  A declarator carries the  *)
(* constructs of the function that enclose it, outermost first; the walk    *)
(* up the parent paths ends at the function's own body, since the traversal *)
(* starts at the function node.  Each binding is used once, in its own      *)
(* block, after its declaration.                                            *)

Construct(type, part) == [type |-> type, part |-> part]

TopLevel == <<>>
Consequent == <<Construct("IfStatement", "consequent")>>
Alternate == <<Construct("IfStatement", "alternate")>>
LoopBody == <<Construct("ForStatement", "body")>>
TryBlock == <<Construct("TryStatement", "block")>>
BareBlock == <<Construct("BlockStatement", "body")>>
NestedFunction == <<Construct("ArrowFunctionExpression", "body")>>

Scopes == {TopLevel, Consequent, Alternate, LoopBody, TryBlock, BareBlock, NestedFunction}

\* lines 58-67: some parent path is an IfStatement
isInIfStatement(ancestors) ==
    \E k \in DOMAIN ancestors : ancestors[k].type = "IfStatement"

ScopedDecl(name, init, ancestors) ==
    [name |-> name, kind |-> "const", init |-> init, nonNull |-> FALSE,
     inIf |-> isInIfStatement(ancestors), ancestors |-> ancestors]

isPrefix(p, s) == Len(p) <= Len(s) /\ SubSeq(s, 1, Len(p)) = p

\* source order: a block that has been left is not entered again
wellNested(body) ==
    \A i, j, k \in DOMAIN body :
        i < j /\ j < k /\ body[i].ancestors # <<>> /\ body[i].ancestors = body[k].ancestors
            => isPrefix(body[i].ancestors, body[j].ancestors)

RECURSIVE ScopedOfLen(_)
ScopedOfLen(n) ==
    IF n = 0 THEN {<<>>}
    ELSE {Append(b, ScopedDecl(SyntheticNames[n], init, ancestors)) :
             b \in ScopedOfLen(n - 1), init \in {ReadPos, ReadVel}, ancestors \in Scopes}

ScopedBodies == {b \in UNION {ScopedOfLen(n) : n \in 1..MaxDecls} : wellNested(b)}

InitScopes ==
    /\ InitSession
    /\ options = [followExports |-> TRUE, followImports |-> "true", debug |-> "false"]
    /\ splice = Idle
    /\ discovery = Idle
    /\ \E body \in ScopedBodies, isPure \in BOOLEAN :
          dedup = [phase |-> "input", isPure |-> isPure, body |-> body,
                   returned |-> [i \in DOMAIN body |-> body[i].name], result |-> NoResult]

SpecScopes == InitScopes /\ [][NextDedup]_vars

\* the use of the i-th binding after deduplication
useOf(i) == dedup.result.returned[i]

sameBranch(i, j) ==
    /\ dedup.body[i].inIf
    /\ dedup.body[i].ancestors = dedup.body[j].ancestors

\* C23 as stated: of two synthetic const bindings with identical canonical initializer
\* inside the same branch of an if the later one is removed and its use renamed to the
\* earlier one; bindings in different branches are not merged.
C23_MergedInsideBranch ==
    Deduplicated =>
        \A i, j \in DOMAIN dedup.body :
            identicalBindings(i, j) /\ i < j /\ dedup.body[i].inIf /\ dedup.body[j].inIf =>
                IF sameBranch(i, j)
                THEN j \notin dedup.result.kept /\ useOf(j) = dedup.body[i].name
                ELSE j \in dedup.result.kept /\ useOf(j) = dedup.body[j].name

\* C23, amended: a synthetic const binding inside an if is never removed, whether the
\* earlier binding with the identical canonical initializer is in the same branch or in
\* another one; its declaration stays and its use keeps its name.
C23_KeptInsideIf ==
    Deduplicated =>
        \A i, j \in DOMAIN dedup.body :
            identicalBindings(i, j) /\ i < j /\ dedup.body[i].inIf /\ dedup.body[j].inIf =>
                /\ i \in dedup.result.kept /\ j \in dedup.result.kept
                /\ useOf(i) = dedup.body[i].name /\ useOf(j) = dedup.body[j].name

C23_TwoInConsequent ==
    /\ Deduplicated /\ Len(dedup.body) = 3
    /\ dedup.body[1].ancestors = Consequent /\ dedup.body[2].ancestors = Consequent
    /\ dedup.body[3].ancestors = Alternate
    /\ identicalBindings(1, 2) /\ identicalBindings(2, 3)
    /\ dedup.result.kept = {1, 2, 3}
    /\ useOf(2) = "b_1_$f"

\* the declaration in the i-th position is visible at the use in the j-th: it comes
\* first and its block encloses the use
visibleAt(i, j) == i <= j /\ isPrefix(dedup.body[i].ancestors, dedup.body[j].ancestors)

\* C28: after deduplication every use names a binding whose declaration is still there
\* and whose block encloses the use, also when an earlier binding with the identical
\* canonical initializer sits in a loop body, a try block, a bare block or a nested
\* function that does not enclose the later one.
C28_LexicalScope ==
    Deduplicated =>
        \A j \in DOMAIN dedup.body :
            \E i \in dedup.result.kept :
                dedup.body[i].name = useOf(j) /\ visibleAt(i, j)

C28_MergedIntoLoopBody ==
    /\ Deduplicated /\ Len(dedup.body) = 2
    /\ dedup.body[1].ancestors = LoopBody /\ dedup.body[2].ancestors = TopLevel
    /\ identicalBindings(1, 2)
    /\ dedup.result.kept = {1}
    /\ useOf(2) = "a_0_$f"

----------------------------------------------------------------------------
(* Deduplication of chained bindings: two reads, then two bindings whose    *)
(* initializers are expressions over the first two, all at the function's   *)
(* top level.                                                               *)

Positions == {"member", "optional", "argument", "index", "member twice"}

\* an initializer that holds the name `n` in the given syntactic position
exprOver(position, n) ==
    CASE position = "member" -> <<n, ".", "x">>
      [] position = "optional" -> <<n, "?.", "x">>
      [] position = "argument" -> <<"f", "(", n, ")">>
      [] position = "index" -> <<"arr", "[", n, "]">>
      [] position = "member twice" -> <<n, ".", "x", "+", n, ".", "y">>

ChainedBodies ==
    {<<Decl(SyntheticNames[1], "const", ReadPos, FALSE, FALSE),
       Decl(SyntheticNames[2], "const", second, FALSE, FALSE),
       Decl(SyntheticNames[3], "const", exprOver(p3, SyntheticNames[n3]), FALSE, FALSE),
       Decl(SyntheticNames[4], "const", exprOver(p4, SyntheticNames[n4]), FALSE, FALSE)>> :
        second \in {ReadPos, ReadVel}, p3 \in Positions, p4 \in Positions,
        n3 \in 1..2, n4 \in 1..2}

InitChained ==
    /\ InitSession
    /\ options = [followExports |-> TRUE, followImports |-> "true", debug |-> "false"]
    /\ splice = Idle
    /\ discovery = Idle
    /\ \E body \in ChainedBodies, isPure \in BOOLEAN :
          dedup = [phase |-> "input", isPure |-> isPure, body |-> body,
                   returned |-> [i \in DOMAIN body |-> body[i].name], result |-> NoResult]

SpecChained == InitChained /\ [][NextDedup]_vars

\* the text of the function after deduplication: the initializers of the declarations
\* that are left, and the uses
textAfter ==
    [i \in DOMAIN dedup.body |->
        IF i \in dedup.result.kept THEN dedup.result.out[i].init ELSE <<>>]
    \o <<dedup.result.returned>>

textBefore ==
    [i \in DOMAIN dedup.body |->
        IF i \in dedup.result.kept THEN initText(dedup.body[i]) ELSE <<>>]
    \o <<dedup.returned>>

\* C24: when dedupVariables has finished, no identifier of the function names a removed
\* binding, every former reference to it names the binding it was merged into, and that
\* binding's declaration is still there under its own name.
C24_NoDanglingReference ==
    Deduplicated =>
        \A i \in DOMAIN dedup.body : i \notin dedup.result.kept =>
            LET b == dedup.body[i].name
                s == dedup.result.st.variablesToReplace[b]
            IN /\ \A t \in DOMAIN textAfter : \A k \in DOMAIN textAfter[t] :
                     /\ textAfter[t][k] # b
                     /\ textBefore[t][k] = b => textAfter[t][k] = s
               /\ s \notin DOMAIN dedup.result.st.variablesToReplace
               /\ \E j \in dedup.result.kept :
                     dedup.body[j].name = s /\ dedup.result.out[j].name = s

C24_ReferenceInInitializer ==
    /\ Deduplicated
    /\ dedup.body[2].init = ReadPos
    /\ dedup.body[4].init = <<"f", "(", "b_1_$f", ")">>
    /\ dedup.result.kept = {1, 3, 4}
    /\ dedup.result.out[4].init = <<"f", "(", "a_0_$f", ")">>
    /\ dedup.result.returned = <<"a_0_$f", "a_0_$f", "c_2_$f", "d_3_$f">>

\* C25: when the second read is a duplicate of the first, a binding initialised with an
\* expression over the second read is a duplicate of the binding initialised with the
\* same expression over the first read, in whatever position the name occurs, and is
\* merged into it.
C25_TransitiveThroughChain ==
    Deduplicated =>
        \A p \in Positions :
            /\ dedup.body[2].init = dedup.body[1].init
            /\ dedup.body[3].init = exprOver(p, dedup.body[1].name)
            /\ dedup.body[4].init = exprOver(p, dedup.body[2].name)
            => /\ 4 \notin dedup.result.kept
               /\ dedup.result.returned[4] = dedup.body[3].name

C25_ArgumentNotMerged ==
    /\ Deduplicated
    /\ dedup.body[2].init = ReadPos
    /\ dedup.body[3].init = <<"f", "(", "a_0_$f", ")">>
    /\ dedup.body[4].init = <<"f", "(", "b_1_$f", ")">>
    /\ dedup.result.st.codes[3] = <<"f", "(", "a_0_$f", ")">>
    /\ dedup.result.st.codes[4] = <<"f", "(", "b_1_$f", ")">>
    /\ dedup.result.kept = {1, 3, 4}
    /\ dedup.result.returned[4] = "d_3_$f"

----------------------------------------------------------------------------
(* Two plugin instances in one process.  The factory was called twice (two  *)
(* bundler configurations, or one plugin listed for two builds); each       *)
(* instance has its own `initialized` and options, the symbol table, the    *)
(* pure set, the statistics and the two caches are the module's.  The host  *)
(* calls the hooks of either instance in any order; initialized, options    *)
(* and scan are those of the instance being called, `other` holds those of  *)
(* the second one.                                                          *)

InstanceOptions ==
    {[followExports |-> TRUE, followImports |-> "true", debug |-> "false"],
     [followExports |-> FALSE, followImports |-> "false", debug |-> "false"]}

InitInstances ==
    /\ initialized = FALSE
    /\ inlinableFunctions = EmptyMap
    /\ pureFunctions = {}
    /\ STATS = EmptyStats
    /\ astCache = EmptyMap
    /\ codeCache = EmptyMap
    /\ ret = [op |-> "none", code |-> "", id |-> NoPath, result |-> Null,
              ranInliner |-> FALSE, didScan |-> FALSE, failure |-> "none",
              console |-> {}, globThrew |-> FALSE]
    /\ scan = NoScan
    /\ pristine = EmptyMap
    /\ rewrite = ParseFail
    /\ options = [followExports |-> TRUE, followImports |-> "true", debug |-> "false"]
    /\ \E opts \in InstanceOptions : other = Instance("B", opts)
    /\ splice = Idle
    /\ dedup = Idle
    /\ discovery = Idle

\* the host's next call goes to the second instance
CallOtherInstance ==
    /\ initialized' = other.initialized
    /\ options' = other.options
    /\ scan' = other.scan
    /\ other' = [name |-> IF other.name = "B" THEN "A" ELSE "B",
                 initialized |-> initialized, options |-> options, scan |-> scan]
    /\ UNCHANGED <<inlinableFunctions, pureFunctions, STATS, astCache, codeCache, ret,
                   pristine, rewrite, splice, dedup, discovery>>

\* the host hands a file of the project to the called instance
TransformFile ==
    /\ \E id \in {fMain, fUtil} :
          \E globThrows \in (IF initialized THEN {FALSE} ELSE BOOLEAN) :
              transform(Disk[id], id, globThrows)
    /\ UNCHANGED <<options, splice, dedup, discovery, other>>

NextInstances == BuildStart \/ TransformFile \/ BuildEnd \/ CallOtherInstance

SpecInstances == InitInstances /\ [][NextInstances]_vars

\* a hook of the called instance has just run its collection
scannedNow == ~initialized /\ initialized' /\ other' = other

\* C26: a collection that one instance runs while the other one is initialized leaves
\* the symbol table, the pure set and every entry of the two caches as the initialized
\* instance has them.
C26_InstancesIsolated ==
    [][scannedNow /\ other.initialized =>
          /\ inlinableFunctions' = inlinableFunctions
          /\ pureFunctions' = pureFunctions
          /\ \A h \in DOMAIN codeCache :
                h \in DOMAIN codeCache' /\ codeCache'[h] = codeCache[h]
          /\ \A h \in DOMAIN astCache :
                h \in DOMAIN astCache' /\ astCache'[h] = astCache[h]]_vars

C26_TableOfOtherInstance ==
    /\ ret.op = "buildStart" /\ ret.didScan /\ initialized
    /\ options.followImports = "false"
    /\ other.name = "A" /\ other.initialized /\ other.scan.status = "complete"
    /\ fG \in other.scan.files
    /\ "G" \notin DOMAIN inlinableFunctions
    /\ codeCache = EmptyMap

----------------------------------------------------------------------------
(* The provenance map of discovery.                                         *)

\* the position of the file f in the order in which discovery read the files
readAt(f) == CHOOSE i \in DOMAIN discovery.st.reads : discovery.st.reads[i] = f

\* the parsed file f holds a followed statement that resolves to t
leadsTo(f, t) ==
    /\ parsedProject(discovery.project)[f].ok
    /\ \E i \in refersTo(f, t, {"import", "export *", "export {...}"}) :
          followed(parsedProject(discovery.project)[f].body[i])

\* C29: when discovery returns, the keys of the provenance map are the files of the
\* final set that are not initial files, and each key has a list of one source: the
\* first file, in the order of processing, with a followed statement that resolves to
\* it; an initial file is no key, also when other files refer to it.
C29_ProvenanceShape ==
    discovery.phase = "returned" =>
        LET prov == discovery.st.prov
        IN /\ DOMAIN prov = Range(discovery.st.files) \ Range(DiscoveryInitial)
           /\ \A f \in Range(DiscoveryInitial) : f \notin DOMAIN prov
           /\ \A t \in DOMAIN prov :
                 /\ Len(prov[t]) = 1
                 /\ SeqContains(discovery.st.reads, prov[t][1])
                 /\ leadsTo(prov[t][1], t)
                 /\ \A f \in Range(discovery.st.reads) :
                       leadsTo(f, t) => readAt(prov[t][1]) <= readAt(f)

C29_InitialFileReferredTo ==
    /\ discovery.phase = "returned"
    /\ options.followExports /\ options.followImports = "all"
    /\ discovery.project.a = <<ExportAll(specifier(dA, dB))>>
    /\ discovery.project.b = <<Import({"n"}, specifier(dB, dA))>>
    /\ discovery.st.files = <<dA, fBad, dB>>
    /\ DOMAIN discovery.st.prov = {dB}
    /\ discovery.st.prov[dB] = <<dA>>

----------------------------------------------------------------------------
(* The import rewriter call by call.  src/util.ts declares `cache` and the  *)
(* inline functions A and B, which call each other, themselves or nothing   *)
(* and use `cache` or not; a call of A or B has been inlined in src/main.ts *)
(* or in src/util.ts itself, and addImportsForDependencies is called for    *)
(* it.  The stack holds the calls of addImportsForDependencies that have    *)
(* not returned, each with the rest of its dependency chain.                *)

\* the deepest recursion the model follows
MaxDepth == 4

RewriterNames == {"A", "B"}

\* a function body: whether it uses `cache`, and the functions it calls
RewriterBodies ==
    {(IF uses THEN <<Use("cache")>> ELSE <<>>) \o [i \in DOMAIN calls |-> Call(calls[i])] :
        uses \in BOOLEAN, calls \in {SetToSeq(S) : S \in SUBSET RewriterNames}}

utilTree(a, b) ==
    Tree(fUtil, <<>>, {"cache"}, <<Fn("A", TRUE, FALSE, a), Fn("B", TRUE, FALSE, b)>>)

mainTree == Tree(fMain, <<Import({"A", "B"}, Rel(0, <<>>, "util", ""))>>, {}, <<>>)

\* the trees by key, the symbol table collection builds from them, the files on disk
rewriterWorld(a, b) ==
    [heap |-> (hashContent("util") :> utilTree(a, b)) @@ (hashContent("main") :> mainTree),
     table |-> collectMetadata(hashContent("util"), utilTree(a, b),
                               [table |-> EmptyMap, pure |-> {}]).table,
     disk |-> {fMain, fUtil}]

\* lines 22-89 of one call: the imports of the function's own dependencies are added,
\* and its dependency chain is about to be walked
enterCall(st, inlineKey, name) ==
    [st EXCEPT
        !.body = addLocalDepImports(st.body, st.destKey, st.W.heap[st.destKey].filename,
                                    inlineKey, name, st.W),
        !.stack = Append(@, [name |-> name, inlineKey |-> inlineKey,
                             chain |-> getFunctionDependencyChain(st.W.table, name)])]

InitRewriter ==
    /\ InitSession
    /\ options = [followExports |-> TRUE, followImports |-> "true", debug |-> "false"]
    /\ dedup = Idle
    /\ discovery = Idle
    /\ \E a \in RewriterBodies, b \in RewriterBodies, name \in RewriterNames,
          dest \in {"main", "util"} :
          splice = [phase |-> "called", W |-> rewriterWorld(a, b),
                    destKey |-> hashContent(dest), name |-> name,
                    body |-> rewriterWorld(a, b).heap[hashContent(dest)].body,
                    stack |-> <<>>]

\* the inliner calls addImportsForDependencies(path, inlinePath, name)
CallRewriter ==
    /\ splice.phase = "called"
    /\ splice' = [enterCall(splice, splice.W.table[splice.name].home, splice.name)
                     EXCEPT !.phase = "running"]
    /\ UNCHANGED <<sessionVars, dedup, discovery>>

\* lines 91-97: the next function of the chain, and the recursive call for it
NestedCall ==
    /\ splice.phase = "running"
    /\ splice.stack # <<>>
    /\ splice.stack[Len(splice.stack)].chain # <<>>
    /\ Len(splice.stack) < MaxDepth
    /\ LET top == splice.stack[Len(splice.stack)]
           funcName == Head(top.chain)
           stepped == [splice EXCEPT !.stack[Len(splice.stack)].chain = Tail(@)]
       IN splice' = enterCall(stepped, nestedInlineKey(splice.W, funcName, top.inlineKey),
                              funcName)
    /\ UNCHANGED <<sessionVars, dedup, discovery>>

\* line 99: the chain is walked through and the call returns
ReturnCall ==
    /\ splice.phase = "running"
    /\ splice.stack # <<>>
    /\ splice.stack[Len(splice.stack)].chain = <<>>
    /\ splice' = [splice EXCEPT
                     !.stack = SubSeq(@, 1, Len(@) - 1),
                     !.phase = IF Len(splice.stack) = 1 THEN "returned" ELSE "running"]
    /\ UNCHANGED <<sessionVars, dedup, discovery>>

NextRewriter == CallRewriter \/ NestedCall \/ ReturnCall

SpecRewriter == InitRewriter /\ [][NextRewriter]_vars

\* a synchronous program: the call in progress takes its next step
FairRewriter == InitRewriter /\ [][NextRewriter]_vars /\ WF_vars(NextRewriter)

\* C27: addImportsForDependencies returns for every symbol table, also when the chains
\* of A and B contain each other or a chain contains its own function, and it never
\* enters a function for which a call is still in progress.
C27_RewriterTerminates ==
    /\ [](\A i, j \in DOMAIN splice.stack :
             splice.stack[i].name = splice.stack[j].name => i = j)
    /\ <>(splice.phase = "returned")

C27_CycleEnteredAgain ==
    /\ splice.phase = "running"
    /\ SeqContains(splice.W.table["A"].calls, "B")
    /\ SeqContains(splice.W.table["B"].calls, "A")
    /\ \E i, j, k \in DOMAIN splice.stack :
          /\ i < j /\ j < k
          /\ splice.stack[i].name = "A"
          /\ splice.stack[j].name = "B"
          /\ splice.stack[k].name = "A"

\* the file an import of the destination program names
importedFile(node) ==
    resolveExportPath(node.source, dirname(splice.W.heap[splice.destKey].filename),
                      splice.W.disk)

\* C30: addImportsForDependencies inserts no import whose source resolves to the
\* destination file; when the inlined function's dependency is declared in the file
\* the call site is in, no import of it is added.
C30_NoSelfImport ==
    splice.phase # "called" =>
        \A i \in DOMAIN splice.body :
            isAdded(splice.body[i]) =>
                importedFile(splice.body[i]) # splice.W.heap[splice.destKey].filename

C30_UtilImportsItself ==
    /\ splice.phase = "returned"
    /\ splice.destKey = hashContent("util")
    /\ splice.name = "A"
    /\ splice.W.table["A"].deps = <<[name |-> "cache", fullPath |-> fUtil]>>
    /\ \E i \in DOMAIN splice.body :
          /\ isAdded(splice.body[i])
          /\ splice.body[i].locals = {"cache"}
          /\ importedFile(splice.body[i]) = fUtil

====
